---- MODULE Spec2Model ----
(***************************************************************************)
(* esvc: event graph (content-addressed events with hard/soft parent       *)
(* sets), work cache keyed by the set of applied events, dependency        *)
(* minimisation (shelve_event) and merge (try_merge).                      *)
(*                                                                         *)
(* Payloads are sequences of the characters 1 and 2 ("a", "b"); the engine *)
(* is the search-and-replace engine of the example-sear crate.  A Hash is  *)
(* a natural number below HashSpace, ordered as the BTreeMap orders it.    *)
(***************************************************************************)
EXTENDS Integers, Sequences, FiniteSets, TLC

\* ------------------------------------------------------------------ bounds
\* number of events a harness session submits
MaxSears == 3
\* number of calls (shelve, ensure, merge, replay) of a free session
MaxOps == 3
\* size of the digest space: small enough that two different events can collide
HashSpace == 13
\* largest input buffer the engine accepts (stands for i32::MAX)
DatCap == 6

\* ------------------------------------------------------------ small helpers
Min(S) == CHOOSE x \in S : \A y \in S : x <= y

\* iteration order of a BTreeSet<Hash> / of the keys of a BTreeMap<Hash, _>
RECURSIVE SortedSeq(_)
SortedSeq(S) == IF S = {} THEN <<>> ELSE <<Min(S)>> \o SortedSeq(S \ {Min(S)})

Last(s) == s[Len(s)]
Front(s) == SubSeq(s, 1, Len(s) - 1)
EmptyMap == [x \in {} |-> FALSE]

\* ------------------------------------------------------------------ engine
\* str::replace: every non-overlapping match of search, left to right
RECURSIVE replace(_, _, _)
replace(dat, search, replacement) ==
    IF Len(dat) < Len(search) \/ Len(search) = 0 THEN dat
    ELSE IF SubSeq(dat, 1, Len(search)) = search
         THEN replacement \o replace(SubSeq(dat, Len(search) + 1, Len(dat)), search, replacement)
         ELSE <<Head(dat)>> \o replace(Tail(dat), search, replacement)

\* Engine::run_event_bare: Err when the input buffer is too long, else the transform
run_event_bare(cmd, arg, dat) ==
    IF Len(dat) > DatCap
    THEN [ok |-> FALSE, dat |-> <<>>]
    ELSE [ok |-> TRUE, dat |-> replace(dat, arg.search, arg.replacement)]

\* -------------------------------------------------------------------- hash
\* serialisation of an event: fixed field order, length-prefixed strings,
\* deps in ascending key order, each with its hard/soft flag
RECURSIVE SerDeps(_, _)
SerDeps(deps, keys) ==
    IF keys = <<>> THEN <<>>
    ELSE <<Head(keys), IF deps[Head(keys)] THEN 1 ELSE 0>> \o SerDeps(deps, Tail(keys))

serialize(ev) ==
    <<ev.cmd, Len(ev.arg.search)>> \o ev.arg.search
        \o <<Len(ev.arg.replacement)>> \o ev.arg.replacement
        \o <<Cardinality(DOMAIN ev.deps)>> \o SerDeps(ev.deps, SortedSeq(DOMAIN ev.deps))

\* digest of a byte sequence, truncated to the digest space
RECURSIVE Digest(_, _)
Digest(bytes, acc) ==
    IF bytes = <<>> THEN acc
    ELSE Digest(Tail(bytes), (acc * 7 + Head(bytes) + 1) % HashSpace)

calculate_hash(bytes) == Digest(bytes, Len(bytes) % HashSpace)

HashOf(ev) == calculate_hash(serialize(ev))

\* ------------------------------------------------------------------- graph
\* ensure_event that inserts over an occupied entry
ensure_event_overwrite(events, ev) ==
    LET h == HashOf(ev) IN
    [events |-> [k \in DOMAIN events \cup {h} |-> IF k = h THEN ev ELSE events[k]],
     coll |-> h \in DOMAIN events /\ events[h] # ev,
     h |-> h]

\* ensure_event without the equality guard: every occupied entry is a collision
ensure_event_strict(events, ev) ==
    LET h == HashOf(ev) IN
    IF h \in DOMAIN events
    THEN [events |-> events, coll |-> TRUE, h |-> h]
    ELSE [events |-> (h :> ev) @@ events, coll |-> FALSE, h |-> h]

\* Graph::ensure_event: get-or-insert; coll is TRUE for Some(ev) (collision)
ensure_event(events, ev) ==
    LET h == HashOf(ev) IN
    IF h \in DOMAIN events
    THEN IF events[h] = ev
         THEN [events |-> events, coll |-> FALSE, h |-> h]
         ELSE [events |-> events, coll |-> TRUE, h |-> h]
    ELSE [events |-> (h :> ev) @@ events, coll |-> FALSE, h |-> h]

\* a pass that leaves the flags of the keys st already has
FoldPass_keepflags(events, st) ==
    LET found == UNION {DOMAIN events[i].deps : i \in DOMAIN st \cap DOMAIN events}
    IN [j \in DOMAIN st \cup found |-> IF j \in DOMAIN st THEN st[j] ELSE TRUE]

\* one pass of the loop of Graph::fold_state: extend st by the deps of its keys (flag true)
FoldPass(events, st) ==
    LET found == UNION {DOMAIN events[i].deps : i \in DOMAIN st \cap DOMAIN events}
    IN [j \in DOMAIN st \cup found |-> IF j \in found THEN TRUE ELSE st[j]]

\* fold_state with the final retain inverted: the compressed form keeps the
\* events found as deps instead of the leaves
RECURSIVE fold_state_keepdeps(_, _, _)
fold_state_keepdeps(events, st, expand) ==
    IF ~(DOMAIN st \subseteq DOMAIN events) THEN [ok |-> FALSE, st |-> EmptyMap]
    ELSE LET nx == FoldPass(events, st) IN
         IF Cardinality(DOMAIN nx) # Cardinality(DOMAIN st)
         THEN fold_state_keepdeps(events, nx, expand)
         ELSE IF expand THEN [ok |-> TRUE, st |-> nx]
              ELSE [ok |-> TRUE, st |-> [j \in {k \in DOMAIN nx : nx[k]} |-> FALSE]]

\* fold_state without the final retain
RECURSIVE fold_state_noretain(_, _, _)
fold_state_noretain(events, st, expand) ==
    IF ~(DOMAIN st \subseteq DOMAIN events) THEN [ok |-> FALSE, st |-> EmptyMap]
    ELSE LET nx == FoldPass(events, st) IN
         IF Cardinality(DOMAIN nx) # Cardinality(DOMAIN st) THEN fold_state_noretain(events, nx, expand)
         ELSE [ok |-> TRUE, st |-> nx]

\* fold_state that gives up after one pass of the loop
fold_state_onepass(events, st, expand) ==
    IF ~(DOMAIN st \subseteq DOMAIN events) THEN [ok |-> FALSE, st |-> EmptyMap]
    ELSE LET nx == FoldPass(events, st) IN
         IF expand THEN [ok |-> TRUE, st |-> nx]
         ELSE [ok |-> TRUE, st |-> [j \in {k \in DOMAIN nx : ~nx[k]} |-> FALSE]]

\* fold_state whose compressed form flags the entries it keeps
RECURSIVE fold_state_flagkept(_, _, _)
fold_state_flagkept(events, st, expand) ==
    IF ~(DOMAIN st \subseteq DOMAIN events) THEN [ok |-> FALSE, st |-> EmptyMap]
    ELSE LET nx == FoldPass(events, st) IN
         IF Cardinality(DOMAIN nx) # Cardinality(DOMAIN st) THEN fold_state_flagkept(events, nx, expand)
         ELSE IF expand THEN [ok |-> TRUE, st |-> nx]
              ELSE [ok |-> TRUE, st |-> [j \in {k \in DOMAIN nx : ~nx[k]} |-> TRUE]]

\* fold_state whose compressed form keeps one leaf only
RECURSIVE fold_state_oneleaf(_, _, _)
fold_state_oneleaf(events, st, expand) ==
    IF ~(DOMAIN st \subseteq DOMAIN events) THEN [ok |-> FALSE, st |-> EmptyMap]
    ELSE LET nx == FoldPass(events, st) IN
         IF Cardinality(DOMAIN nx) # Cardinality(DOMAIN st) THEN fold_state_oneleaf(events, nx, expand)
         ELSE IF expand THEN [ok |-> TRUE, st |-> nx]
              ELSE [ok |-> TRUE,
                    st |-> [j \in {k \in DOMAIN nx : ~nx[k] /\ \A m \in DOMAIN nx : nx[m] \/ k <= m}
                              |-> FALSE]]

\* Graph::fold_state: ok = FALSE when a key is missing from events
RECURSIVE fold_state(_, _, _)
fold_state(events, st, expand) ==
    IF ~(DOMAIN st \subseteq DOMAIN events) THEN [ok |-> FALSE, st |-> EmptyMap]
    ELSE LET nx == FoldPass(events, st) IN
         IF Cardinality(DOMAIN nx) # Cardinality(DOMAIN st) THEN fold_state(events, nx, expand)
         ELSE IF expand THEN [ok |-> TRUE, st |-> nx]
              ELSE [ok |-> TRUE, st |-> [j \in {k \in DOMAIN nx : ~nx[k]} |-> FALSE]]

\* Graph::calculate_dependencies, the walk for one target: stack is the heap
\* of necessary dependencies, popped from its end
RECURSIVE calc_walk(_, _, _, _, _, _)
calc_walk(events, main_evid, incl, stack, tt, ret) ==
    IF stack = <<>> THEN [ok |-> TRUE, err |-> "", tt |-> tt, ret |-> ret]
    ELSE LET evid == Last(stack)
             rest == Front(stack)
         IN IF evid \in tt THEN calc_walk(events, main_evid, incl, rest, tt, ret)
            ELSE IF evid = main_evid /\ rest # <<>>
                 THEN [ok |-> FALSE, err |-> "DependencyCircuit", tt |-> tt, ret |-> ret]
            ELSE IF evid \notin DOMAIN events
                 THEN [ok |-> FALSE, err |-> "DependencyNotFound", tt |-> tt, ret |-> ret]
            ELSE LET necessary_deps == SortedSeq(DOMAIN events[evid].deps \ tt)
                 IN IF necessary_deps # <<>>
                    THEN calc_walk(events, main_evid, incl,
                                   rest \o <<evid>> \o necessary_deps, tt, ret)
                    ELSE IF evid = main_evid /\ incl # "IncludeAll"
                         THEN [ok |-> TRUE, err |-> "", tt |-> tt, ret |-> ret]
                         ELSE calc_walk(events, main_evid, incl, rest,
                                        tt \cup {evid}, ret \o <<evid>>)

\* the targets in ascending order, each walked on top of what is already applied
RECURSIVE calc_targets(_, _, _, _, _)
calc_targets(events, evids, keys, tt, ret) ==
    IF keys = <<>> THEN [ok |-> TRUE, err |-> "", tt |-> tt, ret |-> ret]
    ELSE LET r == calc_walk(events, Head(keys), evids[Head(keys)], <<Head(keys)>>, tt, ret)
         IN IF ~r.ok THEN r ELSE calc_targets(events, evids, Tail(keys), r.tt, r.ret)

\* Graph::calculate_dependencies(already, targets): a replay order of cl(targets) \ already
calculate_dependencies(events, tt, evids) ==
    calc_targets(events, evids, SortedSeq(DOMAIN evids), tt, <<>>)

\* --------------------------------------------------------------- work cache
\* WorkCache::new: exactly the entry for the empty set
NewCache(init_data) == ({} :> init_data)

\* the loop of run_deps with a cache hit that does not refresh data: the next
\* event that misses the cache runs on the stale payload
RECURSIVE run_deps_loop_stale(_, _, _, _, _)
run_deps_loop_stale(events, sts, tt, deps, data) ==
    IF deps = <<>> THEN [ok |-> TRUE, err |-> "", sts |-> sts, tt |-> tt, dat |-> sts[tt]]
    ELSE LET evid == Head(deps)
             key == tt \cup {evid}
         IN IF evid \notin DOMAIN events
            THEN [ok |-> FALSE, err |-> "DependencyNotFound", sts |-> sts, tt |-> tt, dat |-> <<>>]
            ELSE IF key \in DOMAIN sts
                 THEN run_deps_loop_stale(events, sts, key, Tail(deps), data)
                 ELSE LET r == run_event_bare(events[evid].cmd, events[evid].arg, data)
                      IN IF ~r.ok
                         THEN [ok |-> FALSE, err |-> "Engine", sts |-> sts, tt |-> tt, dat |-> <<>>]
                         ELSE run_deps_loop_stale(events, (key :> r.dat) @@ sts, key,
                                                  Tail(deps), r.dat)

\* run_deps_loop with a cache that holds the newest entry only
RECURSIVE run_deps_loop_evict(_, _, _, _, _)
run_deps_loop_evict(events, sts, tt, deps, data) ==
    IF deps = <<>> THEN [ok |-> TRUE, err |-> "", sts |-> sts, tt |-> tt, dat |-> sts[tt]]
    ELSE LET evid == Head(deps)
             key == tt \cup {evid}
         IN IF evid \notin DOMAIN events
            THEN [ok |-> FALSE, err |-> "DependencyNotFound", sts |-> sts, tt |-> tt, dat |-> <<>>]
            ELSE IF key \in DOMAIN sts
                 THEN run_deps_loop_evict(events, sts, key, Tail(deps), sts[key])
                 ELSE LET r == run_event_bare(events[evid].cmd, events[evid].arg, data)
                      IN IF ~r.ok
                         THEN [ok |-> FALSE, err |-> "Engine", sts |-> sts, tt |-> tt, dat |-> <<>>]
                         ELSE run_deps_loop_evict(events, (key :> r.dat), key, Tail(deps), r.dat)

\* run_deps_loop that caches the input payload under the key whose engine
\* call failed
RECURSIVE run_deps_loop_dirty(_, _, _, _, _)
run_deps_loop_dirty(events, sts, tt, deps, data) ==
    IF deps = <<>> THEN [ok |-> TRUE, err |-> "", sts |-> sts, tt |-> tt, dat |-> sts[tt]]
    ELSE LET evid == Head(deps)
             key == tt \cup {evid}
         IN IF evid \notin DOMAIN events
            THEN [ok |-> FALSE, err |-> "DependencyNotFound", sts |-> sts, tt |-> tt, dat |-> <<>>]
            ELSE IF key \in DOMAIN sts
                 THEN run_deps_loop_dirty(events, sts, key, Tail(deps), sts[key])
                 ELSE LET r == run_event_bare(events[evid].cmd, events[evid].arg, data)
                      IN IF ~r.ok
                         THEN [ok |-> FALSE, err |-> "Engine", sts |-> (key :> data) @@ sts,
                               tt |-> tt, dat |-> <<>>]
                         ELSE run_deps_loop_dirty(events, (key :> r.dat) @@ sts, key, Tail(deps), r.dat)

\* the loop of WorkCache::run_deps
RECURSIVE run_deps_loop(_, _, _, _, _)
run_deps_loop(events, sts, tt, deps, data) ==
    IF deps = <<>> THEN [ok |-> TRUE, err |-> "", sts |-> sts, tt |-> tt, dat |-> sts[tt]]
    ELSE LET evid == Head(deps)
             key == tt \cup {evid}
         IN IF evid \notin DOMAIN events
            THEN [ok |-> FALSE, err |-> "DependencyNotFound", sts |-> sts, tt |-> tt, dat |-> <<>>]
            ELSE IF key \in DOMAIN sts
                 THEN run_deps_loop(events, sts, key, Tail(deps), sts[key])
                 ELSE LET r == run_event_bare(events[evid].cmd, events[evid].arg, data)
                      IN IF ~r.ok
                         THEN [ok |-> FALSE, err |-> "Engine", sts |-> sts, tt |-> tt, dat |-> <<>>]
                         ELSE run_deps_loop(events, (key :> r.dat) @@ sts, key, Tail(deps), r.dat)

\* WorkCache::run_deps
run_deps(events, sts, tt, deps) ==
    IF tt \notin DOMAIN sts
    THEN [ok |-> FALSE, err |-> "DatasetNotFound", sts |-> sts, tt |-> tt, dat |-> <<>>]
    ELSE run_deps_loop(events, sts, tt, deps, sts[tt])

\* run_foreach_recursively once the replay order d is calculated
run_calculated(events, sts, d) ==
    IF ~d.ok THEN [ok |-> FALSE, err |-> d.err, sts |-> sts, tt |-> {}, dat |-> <<>>]
    ELSE run_deps(events, sts, {}, d.ret)

\* WorkCache::run_foreach_recursively
run_foreach_recursively(events, sts, evids) ==
    run_calculated(events, sts, calculate_dependencies(events, {}, evids))

\* a frontier with every element IncludeAll
AllOf(S) == [i \in S |-> "IncludeAll"]
\* ------------------------------------------------------------ shelve_event
\* cur_deps maps a decided hash to its DepSt: "Use", "UseSoft" or "Deny"
UseKeys(cur_deps) == {h \in DOMAIN cur_deps : cur_deps[h] = "Use"}
IsDeny(cur_deps, i) == i \in DOMAIN cur_deps /\ cur_deps[i] = "Deny"

\* the replayed frontier of a round: the seeds not denied, plus the Use deps
CurTargets(seed_deps, cur_deps) ==
    AllOf({i \in seed_deps : ~IsDeny(cur_deps, i)} \cup UseKeys(cur_deps))

\* the frontier of the probe of conc_evid: the seeds and the Use deps, conc_evid
\* itself with IncludeOnlyDeps
ProbeTargets(seed_deps, cur_deps, conc_evid) ==
    [i \in seed_deps \cup UseKeys(cur_deps) |->
        IF i = conc_evid THEN "IncludeOnlyDeps" ELSE "IncludeAll"]

\* the probes of a round, in ascending order of the seeds: seed_deps2 maps
\* each probed seed to the set replayed without it, extra holds the seeds
\* another element pulls in; the first failing replay ends the probes
RECURSIVE probe_seeds(_, _, _, _, _, _, _)
RECURSIVE probe_seed(_, _, _, _, _, _, _)
probe_seeds(events, sts, seed_deps, cur_deps, todo, seed_deps2, extra) ==
    IF todo = <<>>
    THEN [ok |-> TRUE, err |-> "", sts |-> sts, seed_deps2 |-> seed_deps2, extra |-> extra]
    ELSE probe_seed(events, seed_deps, cur_deps, todo, seed_deps2, extra,
                    run_foreach_recursively(events, sts,
                                            ProbeTargets(seed_deps, cur_deps, Head(todo))))

\* the probe of Head(todo), r being the replay without it
probe_seed(events, seed_deps, cur_deps, todo, seed_deps2, extra, r) ==
    IF ~r.ok
    THEN [ok |-> FALSE, err |-> r.err, sts |-> r.sts,
          seed_deps2 |-> seed_deps2, extra |-> extra]
    ELSE IF Head(todo) \in r.tt
         THEN probe_seeds(events, r.sts, seed_deps, cur_deps, Tail(todo),
                          seed_deps2, extra \cup {Head(todo)})
         ELSE probe_seeds(events, r.sts, seed_deps, cur_deps, Tail(todo),
                          (Head(todo) :> r.tt) @@ seed_deps2, extra)

\* the independence test reduced to commutation: ev then conc_ev gives cur_st
is_indep_commute(ev, conc_ev, base_st, cur_st) ==
    LET evfirst == run_event_bare(ev.cmd, ev.arg, base_st) IN
    IF ~evfirst.ok THEN [ok |-> FALSE, indep |-> FALSE]
    ELSE LET evfirst_then == run_event_bare(conc_ev.cmd, conc_ev.arg, evfirst.dat) IN
         IF ~evfirst_then.ok THEN [ok |-> FALSE, indep |-> FALSE]
         ELSE [ok |-> TRUE, indep |-> evfirst_then.dat = cur_st]

\* the independence test that asks only whether conc_ev still acts after ev
is_indep_differs(ev, conc_ev, base_st, cur_st) ==
    IF cur_st = base_st THEN [ok |-> TRUE, indep |-> FALSE]
    ELSE IF ev.cmd = conc_ev.cmd /\ ev.arg = conc_ev.arg THEN [ok |-> TRUE, indep |-> FALSE]
    ELSE LET evfirst == run_event_bare(ev.cmd, ev.arg, base_st) IN
         IF ~evfirst.ok THEN [ok |-> FALSE, indep |-> FALSE]
         ELSE LET evfirst_then == run_event_bare(conc_ev.cmd, conc_ev.arg, evfirst.dat) IN
              IF ~evfirst_then.ok THEN [ok |-> FALSE, indep |-> FALSE]
              ELSE [ok |-> TRUE, indep |-> evfirst.dat # evfirst_then.dat]

\* the independence test without its branch for a seed that has the cmd and
\* the arg of the candidate
is_indep_norepeat(ev, conc_ev, base_st, cur_st) ==
    IF cur_st = base_st THEN [ok |-> TRUE, indep |-> FALSE]
    ELSE LET evfirst == run_event_bare(ev.cmd, ev.arg, base_st) IN
         IF ~evfirst.ok THEN [ok |-> FALSE, indep |-> FALSE]
         ELSE LET evfirst_then == run_event_bare(conc_ev.cmd, conc_ev.arg, evfirst.dat) IN
              IF ~evfirst_then.ok THEN [ok |-> FALSE, indep |-> FALSE]
              ELSE [ok |-> TRUE,
                    indep |-> evfirst.dat # evfirst_then.dat /\ evfirst_then.dat = cur_st]

\* the independence test of ev against conc_ev, base_st being the payload
\* replayed without conc_ev and cur_st the payload of ev on the full frontier
is_indep(ev, conc_ev, base_st, cur_st) ==
    IF cur_st = base_st
    THEN [ok |-> TRUE, indep |-> FALSE]
    ELSE IF ev.cmd = conc_ev.cmd /\ ev.arg = conc_ev.arg
         THEN [ok |-> TRUE, indep |-> FALSE]
         ELSE LET evfirst == run_event_bare(ev.cmd, ev.arg, base_st) IN
              IF ~evfirst.ok THEN [ok |-> FALSE, indep |-> FALSE]
              ELSE LET evfirst_then == run_event_bare(conc_ev.cmd, conc_ev.arg, evfirst.dat) IN
                   IF ~evfirst_then.ok THEN [ok |-> FALSE, indep |-> FALSE]
                   ELSE [ok |-> TRUE,
                         indep |-> evfirst.dat # evfirst_then.dat /\ evfirst_then.dat = cur_st]

\* the marks of a seed found not independent, its hard deps left unmarked
MarkUse_nodeny(cur_deps, conc_evid, conc_ev) ==
    [h \in DOMAIN cur_deps \cup {conc_evid} |->
        IF h \in DOMAIN cur_deps THEN cur_deps[h] ELSE "Use"]

\* not independent: conc_evid becomes Use unless already decided, and its hard
\* deps are (over)written with Deny
MarkUse(cur_deps, conc_evid, conc_ev) ==
    LET hard == {d \in DOMAIN conc_ev.deps : conc_ev.deps[d]}
    IN [h \in DOMAIN cur_deps \cup {conc_evid} \cup hard |->
            IF h \in hard THEN "Deny"
            ELSE IF h \in DOMAIN cur_deps THEN cur_deps[h] ELSE "Use"]

\* the decisions of a round that mark every tested seed Use, whatever the
\* independence test said of it
RECURSIVE decide_markall(_, _, _, _, _, _, _, _)
decide_markall(events, ev, sts, cur_st, seed_deps2, todo, new_seed_deps, cur_deps) ==
    IF todo = <<>>
    THEN [ok |-> TRUE, new_seed_deps |-> new_seed_deps, cur_deps |-> cur_deps]
    ELSE IF ~is_indep(ev, events[Head(todo)], sts[seed_deps2[Head(todo)]], cur_st).ok
         THEN [ok |-> FALSE, new_seed_deps |-> new_seed_deps, cur_deps |-> cur_deps]
         ELSE decide_markall(events, ev, sts, cur_st, seed_deps2, Tail(todo),
                             new_seed_deps, MarkUse(cur_deps, Head(todo), events[Head(todo)]))

\* the decisions of a round over seed_deps2, in ascending order
RECURSIVE decide(_, _, _, _, _, _, _, _)
decide(events, ev, sts, cur_st, seed_deps2, todo, new_seed_deps, cur_deps) ==
    IF todo = <<>>
    THEN [ok |-> TRUE, new_seed_deps |-> new_seed_deps, cur_deps |-> cur_deps]
    ELSE LET conc_evid == Head(todo)
             conc_ev == events[conc_evid]
             t == is_indep(ev, conc_ev, sts[seed_deps2[conc_evid]], cur_st)
         IN IF ~t.ok
            THEN [ok |-> FALSE, new_seed_deps |-> new_seed_deps, cur_deps |-> cur_deps]
            ELSE IF t.indep
                 THEN decide(events, ev, sts, cur_st, seed_deps2, Tail(todo),
                             new_seed_deps \cup DOMAIN conc_ev.deps, cur_deps)
                 ELSE decide(events, ev, sts, cur_st, seed_deps2, Tail(todo),
                             new_seed_deps, MarkUse(cur_deps, conc_evid, conc_ev))

\* apply the events of todo, in order, to a payload (engine only, no cache)
RECURSIVE apply_bare(_, _, _)
apply_bare(events, todo, dat) ==
    IF todo = <<>> THEN [ok |-> TRUE, dat |-> dat]
    ELSE LET r == run_event_bare(events[Head(todo)].cmd, events[Head(todo)].arg, dat)
         IN IF ~r.ok THEN r ELSE apply_bare(events, Tail(todo), r.dat)

\* the state of the loop of shelve_event; st is "loop" while it goes on
LoopSt(st, err, seed_deps, cur_deps, sts) ==
    [st |-> st, err |-> err, seed_deps |-> seed_deps, cur_deps |-> cur_deps, sts |-> sts]

\* the end of a safety check that goes on with the new seeds whatever tmp_st is
safety_compare_skip(cur_st, open, new_seed_deps, cur_deps, sts, tmp_st) ==
    IF ~tmp_st.ok THEN LoopSt("err", "Engine", open, cur_deps, sts)
    ELSE LoopSt("loop", "", new_seed_deps, cur_deps, sts)

\* the end of the safety check: tmp_st is ev and then the open seeds, applied
\* to the replay of the reduced frontier
safety_compare(cur_st, open, new_seed_deps, cur_deps, sts, tmp_st) ==
    IF ~tmp_st.ok THEN LoopSt("err", "Engine", open, cur_deps, sts)
    ELSE IF cur_st # tmp_st.dat
         THEN IF \E h \in open : h \in DOMAIN cur_deps /\ cur_deps[h] \in {"Deny", "Use"}
              THEN LoopSt("panic", "", open, cur_deps, sts)
              ELSE LoopSt("break", "", open,
                          [h \in DOMAIN cur_deps \cup open |->
                              IF h \in open THEN "UseSoft" ELSE cur_deps[h]],
                          sts)
         ELSE LoopSt("loop", "", new_seed_deps, cur_deps, sts)

\* tmp0 is ev applied to the replay of the reduced frontier, open the seeds
\* that replay misses
safety_open(events, cur_st, seed_deps, open, new_seed_deps, cur_deps, sts, tmp0) ==
    IF ~tmp0.ok THEN LoopSt("err", "Engine", seed_deps, cur_deps, sts)
    ELSE safety_compare(cur_st, open, new_seed_deps, cur_deps, sts,
                        apply_bare(events, SortedSeq(open), tmp0.dat))

\* a safety check that takes every seed of the round as open
safety_bare_all(events, ev, cur_st, seed_deps, new_seed_deps, cur_deps, bare) ==
    IF ~bare.ok THEN LoopSt("err", bare.err, seed_deps, cur_deps, bare.sts)
    ELSE safety_open(events, cur_st, seed_deps, seed_deps, new_seed_deps,
                     cur_deps, bare.sts, run_event_bare(ev.cmd, ev.arg, bare.dat))

\* bare is the replay of the reduced frontier
safety_bare(events, ev, cur_st, seed_deps, new_seed_deps, cur_deps, bare) ==
    IF ~bare.ok THEN LoopSt("err", bare.err, seed_deps, cur_deps, bare.sts)
    ELSE safety_open(events, cur_st, seed_deps, seed_deps \ bare.tt, new_seed_deps,
                     cur_deps, bare.sts, run_event_bare(ev.cmd, ev.arg, bare.dat))

\* the safety check that ends a round: replay the reduced frontier, apply ev
\* and the seeds the replay misses, and compare with cur_st
safety_check(events, ev, sts, cur_st, seed_deps, new_seed_deps, cur_deps) ==
    safety_bare(events, ev, cur_st, seed_deps, new_seed_deps, cur_deps,
                run_foreach_recursively(events, sts, CurTargets(new_seed_deps, cur_deps)))

\* a round after its decisions that leaves the deferred seeds out of the new
\* seeds
round_check_drop(events, ev, seed_deps, cur_deps, cur_st, p, d) ==
    IF ~d.ok THEN LoopSt("err", "Engine", seed_deps, cur_deps, p.sts)
    ELSE safety_check(events, ev, p.sts, cur_st, seed_deps, d.new_seed_deps, d.cur_deps)

\* a round after its decisions that always hands the deferred seeds on
round_check_keep(events, ev, seed_deps, cur_deps, cur_st, p, d) ==
    IF ~d.ok THEN LoopSt("err", "Engine", seed_deps, cur_deps, p.sts)
    ELSE safety_check(events, ev, p.sts, cur_st, seed_deps, d.new_seed_deps \cup p.extra,
                      d.cur_deps)

\* a round after its decisions d: the extra seeds, then the safety check
round_check(events, ev, seed_deps, cur_deps, cur_st, p, d) ==
    IF ~d.ok THEN LoopSt("err", "Engine", seed_deps, cur_deps, p.sts)
    ELSE safety_check(events, ev, p.sts, cur_st, seed_deps,
                      IF p.extra # seed_deps
                      THEN d.new_seed_deps \cup p.extra
                      ELSE d.new_seed_deps,
                      d.cur_deps)

\* a round after its probes p: the decisions over seed_deps2
round_decide(events, ev, seed_deps, cur_deps, cur_st, p) ==
    IF ~p.ok THEN LoopSt("err", p.err, seed_deps, cur_deps, p.sts)
    ELSE round_check(events, ev, seed_deps, cur_deps, cur_st, p,
                     decide(events, ev, p.sts, cur_st, p.seed_deps2,
                            SortedSeq(DOMAIN p.seed_deps2), {}, cur_deps))

\* a round with its cur state: the no-op test, then the probes
round_probe(events, ev, seed_deps, cur_deps, base, cur) ==
    IF ~cur.ok THEN LoopSt("err", "Engine", seed_deps, cur_deps, base.sts)
    ELSE IF DOMAIN cur_deps = {} /\ base.dat = cur.dat
         THEN LoopSt("none", "", seed_deps, cur_deps, base.sts)
         ELSE round_decide(events, ev, seed_deps, cur_deps, cur.dat,
                           probe_seeds(events, base.sts, seed_deps, cur_deps,
                                       SortedSeq(seed_deps), [x \in {} |-> {}], {}))

\* a round with its base state: ev applied to it is the cur state
round_cur(events, ev, seed_deps, cur_deps, base) ==
    IF ~base.ok THEN LoopSt("err", base.err, seed_deps, cur_deps, base.sts)
    ELSE round_probe(events, ev, seed_deps, cur_deps, base,
                     run_event_bare(ev.cmd, ev.arg, base.dat))

\* a round on the filtered seeds: the replay of the current frontier
round_base(events, ev, sts, seed_deps, cur_deps) ==
    round_cur(events, ev, seed_deps, cur_deps,
              run_foreach_recursively(events, sts, CurTargets(seed_deps, cur_deps)))

\* one round of the while loop of shelve_event
shelve_round(events, ev, s) ==
    round_base(events, ev, s.sts,
               {c \in s.seed_deps : c \notin DOMAIN s.cur_deps}, s.cur_deps)

\* rounds one call may take before the model gives up on it
MaxRounds == 8

\* while !seed_deps.is_empty() { round }
RECURSIVE shelve_loop(_, _, _, _)
shelve_loop(events, ev, s, fuel) ==
    IF s.st # "loop" THEN s
    ELSE IF s.seed_deps = {} THEN [s EXCEPT !.st = "break"]
    ELSE IF fuel = 0 THEN [s EXCEPT !.st = "diverge"]
    ELSE shelve_loop(events, ev, shelve_round(events, ev, s), fuel - 1)

\* the result of a call: kind is "some" (Ok(Some(h))), "none" (Ok(None)),
\* "err" (Err(err)), "panic" (the assertion failed) or "diverge"
CallRes(kind, err, h, events, sts) ==
    [kind |-> kind, err |-> err, h |-> h, events |-> events, sts |-> sts]

\* registration under the hash of the candidate as it was before its deps
\* were filled in
register_event_prehash(events, ev, s) ==
    LET kept == {h \in DOMAIN s.cur_deps : s.cur_deps[h] # "Deny"}
        nev == [cmd |-> ev.cmd, arg |-> ev.arg,
                deps |-> [h \in kept |-> s.cur_deps[h] = "Use"]]
        h == HashOf(ev)
    IN IF h \in DOMAIN events
       THEN IF events[h] = nev THEN CallRes("some", "", h, events, s.sts)
            ELSE CallRes("err", "HashCollision", h, events, s.sts)
       ELSE CallRes("some", "", h, (h :> nev) @@ events, s.sts)

\* registration that stores the entries marked Deny as soft deps
register_event_denied(events, ev, s) ==
    LET nev == [cmd |-> ev.cmd, arg |-> ev.arg,
                deps |-> [h \in DOMAIN s.cur_deps |-> s.cur_deps[h] = "Use"]]
        r == ensure_event(events, nev)
    IN IF r.coll THEN CallRes("err", "HashCollision", r.h, r.events, s.sts)
       ELSE CallRes("some", "", r.h, r.events, s.sts)

\* mangle deps and register the event
register_event(events, ev, s) ==
    LET kept == {h \in DOMAIN s.cur_deps : s.cur_deps[h] # "Deny"}
        nev == [cmd |-> ev.cmd, arg |-> ev.arg,
                deps |-> [h \in kept |-> s.cur_deps[h] = "Use"]]
        r == ensure_event(events, nev)
    IN IF r.coll THEN CallRes("err", "HashCollision", r.h, r.events, s.sts)
       ELSE CallRes("some", "", r.h, r.events, s.sts)

\* the end of shelve_event: register the event when the loop has ended
shelve_end(events, ev, s) ==
    IF s.st = "break" THEN register_event(events, ev, s)
    ELSE CallRes(s.st, s.err, 0, events, s.sts)

\* shelve_event without the no-op check ahead of the loop
shelve_noop_skipped(events, seed_deps, ev, base, cur) ==
    IF ~cur.ok THEN CallRes("err", "Engine", 0, events, base.sts)
    ELSE shelve_end(events, ev,
                    shelve_loop(events, ev,
                                LoopSt("loop", "", seed_deps, EmptyMap, base.sts),
                                MaxRounds))

\* the no-op check ahead of the loop, cur being ev on the payload of the frontier
shelve_noop(events, seed_deps, ev, base, cur) ==
    IF ~cur.ok THEN CallRes("err", "Engine", 0, events, base.sts)
    ELSE IF base.dat = cur.dat THEN CallRes("none", "", 0, events, base.sts)
    ELSE shelve_end(events, ev,
                    shelve_loop(events, ev,
                                LoopSt("loop", "", seed_deps, EmptyMap, base.sts),
                                MaxRounds))

\* the expected state ahead of the loop, base being the replay of the frontier
shelve_expected(events, seed_deps, ev, base) ==
    IF ~base.ok THEN CallRes("err", base.err, 0, events, base.sts)
    ELSE shelve_noop(events, seed_deps, ev, base, run_event_bare(ev.cmd, ev.arg, base.dat))

\* registration that adds the mangled deps to those the candidate came with
register_event_extend(events, ev, s) ==
    LET kept == {h \in DOMAIN s.cur_deps : s.cur_deps[h] # "Deny"}
        nev == [cmd |-> ev.cmd, arg |-> ev.arg,
                deps |-> [h \in kept \cup DOMAIN ev.deps |->
                             IF h \in kept THEN s.cur_deps[h] = "Use" ELSE ev.deps[h]]]
        r == ensure_event(events, nev)
    IN IF r.coll THEN CallRes("err", "HashCollision", r.h, r.events, s.sts)
       ELSE CallRes("some", "", r.h, r.events, s.sts)

\* shelve_event that neither clears the deps of the candidate nor replaces
\* them at the registration
shelve_event_keepdeps(events, sts, seed_deps, ev0) ==
    LET base == run_foreach_recursively(events, sts, AllOf(seed_deps))
        cur == run_event_bare(ev0.cmd, ev0.arg, base.dat)
        s == shelve_loop(events, ev0, LoopSt("loop", "", seed_deps, EmptyMap, base.sts),
                         MaxRounds)
    IN IF ~base.ok THEN CallRes("err", base.err, 0, events, base.sts)
       ELSE IF ~cur.ok THEN CallRes("err", "Engine", 0, events, base.sts)
       ELSE IF base.dat = cur.dat THEN CallRes("none", "", 0, events, base.sts)
       ELSE IF s.st = "break" THEN register_event_extend(events, ev0, s)
       ELSE CallRes(s.st, s.err, 0, events, s.sts)

\* shelve_event that takes the deps of the candidate as further seeds
shelve_event_seeddeps(events, sts, seed_deps, ev0) ==
    shelve_expected(events, seed_deps \cup DOMAIN ev0.deps, [ev0 EXCEPT !.deps = EmptyMap],
                    run_foreach_recursively(events, sts,
                                            AllOf(seed_deps \cup DOMAIN ev0.deps)))

\* shelve_event that stores the candidate, deps cleared, before it looks for
\* its dependencies
shelve_event_eager(events, sts, seed_deps, ev0) ==
    shelve_expected(ensure_event(events, [ev0 EXCEPT !.deps = EmptyMap]).events,
                    seed_deps, [ev0 EXCEPT !.deps = EmptyMap],
                    run_foreach_recursively(
                        ensure_event(events, [ev0 EXCEPT !.deps = EmptyMap]).events,
                        sts, AllOf(seed_deps)))

\* WorkCache::shelve_event(graph, seed_deps, ev); the deps of ev are cleared first
shelve_event(events, sts, seed_deps, ev0) ==
    shelve_expected(events, seed_deps, [ev0 EXCEPT !.deps = EmptyMap],
                    run_foreach_recursively(events, sts, AllOf(seed_deps)))

\* the rounds of a call, recorded for the properties of a round
\* the record of a round that stopped ahead of its probes
RoundStopped(seed_deps, cur_deps) ==
    [acted |-> FALSE, seeds |-> seed_deps, cur_deps |-> cur_deps, base_st |-> <<>>,
     cur_st |-> <<>>, probed |-> {}, extra |-> {},
     without |-> [c \in {} |-> <<>>], indep |-> {}, dep |-> {}, failed |-> {}]

\* the record of a round with its probes p: the seeds probed, the payload each
\* was probed on, and the verdict of the independence test on each
round_record_probes(events, ev, seed_deps, cur_deps, base_dat, cur_dat, p) ==
    [acted |-> p.ok, seeds |-> seed_deps, cur_deps |-> cur_deps, base_st |-> base_dat,
     cur_st |-> cur_dat, probed |-> DOMAIN p.seed_deps2, extra |-> p.extra,
     without |-> [c \in DOMAIN p.seed_deps2 |-> p.sts[p.seed_deps2[c]]],
     indep |-> {c \in DOMAIN p.seed_deps2 :
                   \E t \in {is_indep(ev, events[c], p.sts[p.seed_deps2[c]], cur_dat)} :
                      t.ok /\ t.indep},
     dep |-> {c \in DOMAIN p.seed_deps2 :
                 \E t \in {is_indep(ev, events[c], p.sts[p.seed_deps2[c]], cur_dat)} :
                    t.ok /\ ~t.indep},
     failed |-> {c \in DOMAIN p.seed_deps2 :
                    ~is_indep(ev, events[c], p.sts[p.seed_deps2[c]], cur_dat).ok}]

round_record_cur(events, ev, seed_deps, cur_deps, base, cur) ==
    IF ~cur.ok \/ (DOMAIN cur_deps = {} /\ base.dat = cur.dat)
    THEN RoundStopped(seed_deps, cur_deps)
    ELSE round_record_probes(events, ev, seed_deps, cur_deps, base.dat, cur.dat,
                             probe_seeds(events, base.sts, seed_deps, cur_deps,
                                         SortedSeq(seed_deps), [x \in {} |-> {}], {}))

round_record_base(events, ev, seed_deps, cur_deps, base) ==
    IF ~base.ok THEN RoundStopped(seed_deps, cur_deps)
    ELSE round_record_cur(events, ev, seed_deps, cur_deps, base,
                          run_event_bare(ev.cmd, ev.arg, base.dat))

\* the record of the round shelve_round takes from s
round_record(events, ev, s) ==
    round_record_base(events, ev, {c \in s.seed_deps : c \notin DOMAIN s.cur_deps},
                      s.cur_deps,
                      run_foreach_recursively(
                          events, s.sts,
                          CurTargets({c \in s.seed_deps : c \notin DOMAIN s.cur_deps},
                                     s.cur_deps)))

\* --------------------------------------------------------------- try_merge
HardDeps(ev) == {d \in DOMAIN ev.deps : ev.deps[d]}

\* ------------------------------------------------- the stack-driven replay
\* steps one walk of the dependency stack may take before the model gives up
\* on it; a walk that ends takes fewer
MaxSteps == 24

\* the result of a replay: kind is "ok", "err" or "diverge"; ran lists the
\* events applied, in order (from the cache or by the engine)
WalkRes(kind, err, sts, tt, ran) ==
    [kind |-> kind, err |-> err, sts |-> sts, tt |-> tt, ran |-> ran]

\* WorkCache::run_recursively, the loop over the dependency stack: the last
\* element of stack is its top, data the payload of tt
RECURSIVE run_stack(_, _, _, _, _, _, _, _, _)
run_stack(events, sts, main_evid, incl, stack, tt, data, ran, fuel) ==
    IF stack = <<>> THEN WalkRes("ok", "", sts, tt, ran)
    ELSE IF fuel = 0 THEN WalkRes("diverge", "", sts, tt, ran)
    ELSE LET evid == Last(stack)
             rest == Front(stack)
         IN IF evid \in tt
            THEN run_stack(events, sts, main_evid, incl, rest, tt, data, ran, fuel - 1)
            ELSE IF evid = main_evid /\ rest # <<>>
                 THEN WalkRes("err", "DependencyCircuit", sts, tt, ran)
            ELSE IF evid \notin DOMAIN events
                 THEN WalkRes("err", "DependencyNotFound", sts, tt, ran)
            ELSE IF DOMAIN events[evid].deps \ tt # {}
                 THEN run_stack(events, sts, main_evid, incl,
                                rest \o <<evid>> \o SortedSeq(DOMAIN events[evid].deps \ tt),
                                tt, data, ran, fuel - 1)
            ELSE IF evid = main_evid /\ incl # "IncludeAll"
                 THEN WalkRes("ok", "", sts, tt, ran)
            ELSE IF (tt \cup {evid}) \in DOMAIN sts
                 THEN run_stack(events, sts, main_evid, incl, rest, tt \cup {evid},
                                sts[tt \cup {evid}], ran \o <<evid>>, fuel - 1)
            ELSE LET r == run_event_bare(events[evid].cmd, events[evid].arg, data)
                 IN IF ~r.ok THEN WalkRes("err", "Engine", sts, tt, ran)
                    ELSE run_stack(events, ((tt \cup {evid}) :> r.dat) @@ sts, main_evid,
                                   incl, rest, tt \cup {evid}, r.dat, ran \o <<evid>>,
                                   fuel - 1)

\* WorkCache::run_recursively(graph, engine, tt, main_evid, incl)
\* a replay that takes every target in, whatever its marking
run_recursively_all(events, sts, tt, main_evid, incl) ==
    IF tt \notin DOMAIN sts THEN WalkRes("err", "DatasetNotFound", sts, tt, <<>>)
    ELSE run_stack(events, sts, main_evid, "IncludeAll", <<main_evid>>, tt, sts[tt], <<>>,
                   MaxSteps)

run_recursively(events, sts, tt, main_evid, incl) ==
    IF tt \notin DOMAIN sts THEN WalkRes("err", "DatasetNotFound", sts, tt, <<>>)
    ELSE run_stack(events, sts, main_evid, incl, <<main_evid>>, tt, sts[tt], <<>>,
                   MaxSteps)

\* the try_fold of run_foreach_recursively over the targets, in ascending order
RECURSIVE run_foreach_fold(_, _, _, _, _, _)
run_foreach_fold(events, sts, evids, keys, tt, ran) ==
    IF keys = <<>> THEN WalkRes("ok", "", sts, tt, ran)
    ELSE LET r == run_recursively(events, sts, tt, Head(keys), evids[Head(keys)])
         IN IF r.kind # "ok" THEN [r EXCEPT !.ran = ran \o r.ran]
            ELSE run_foreach_fold(events, r.sts, evids, Tail(keys), r.tt, ran \o r.ran)

\* WorkCache::run_foreach_recursively(graph, engine, evids) of the engine module
run_foreach_stack(events, sts, evids) ==
    run_foreach_fold(events, sts, evids, SortedSeq(DOMAIN evids), {}, <<>>)

\* ------------------------------------------------------- check_if_mergable
\* the accumulator of the all-equal folds: (flag, Option<cache>), and whether a
\* probe returned an error
Acc(ok, some, elem, err) == [ok |-> ok, some |-> some, elem |-> elem, err |-> err]
AccInit == Acc(TRUE, FALSE, EmptyMap, FALSE)

\* the closures of the frontier elements, replayed one after the other on the
\* cache itself
RECURSIVE mergable_bases(_, _, _, _)
mergable_bases(events, sts, todo, bases) ==
    IF todo = <<>> THEN [kind |-> "ok", err |-> "", sts |-> sts, bases |-> bases]
    ELSE LET r == run_recursively(events, sts, {}, Head(todo), "IncludeAll")
         IN IF r.kind # "ok"
            THEN [kind |-> r.kind, err |-> r.err, sts |-> r.sts, bases |-> bases]
            ELSE mergable_bases(events, r.sts, Tail(todo), (Head(todo) :> r.tt) @@ bases)

\* the 2d matrix: the pairs (closure of element i, element j), i # j, row by row
mergable_pairs(bases, F) ==
    LET s == SortedSeq(F)
        n == Len(s)
    IN [k \in 1 .. (n * (n - 1)) |->
           LET ni == ((k - 1) \div (n - 1)) + 1
               c  == ((k - 1) % (n - 1)) + 1
               nj == IF c < ni THEN c ELSE c + 1
           IN [i |-> bases[s[ni]], j |-> s[nj]]]

\* one probe on a clone of the cache: the cache the clone ends with
mergable_probe(events, sts, pair) ==
    LET r == run_recursively(events, sts, pair.i, pair.j, "IncludeAll")
    IN [ok |-> r.kind = "ok", elem |-> r.sts]

\* the closure of try_fold, on the accumulator of one worker
fold_probe(acc, probe) ==
    IF acc.err THEN acc
    ELSE IF ~acc.ok THEN Acc(FALSE, FALSE, EmptyMap, FALSE)
    ELSE IF ~probe.ok THEN Acc(acc.ok, acc.some, acc.elem, TRUE)
    ELSE IF ~acc.some \/ acc.elem = probe.elem THEN Acc(TRUE, TRUE, probe.elem, FALSE)
    ELSE Acc(FALSE, FALSE, EmptyMap, FALSE)

\* the sequential join of the workers' accumulators: collect stops at an
\* error, flat_map drops the accumulators without an element, fold compares
\* the others
join_part(acc, part) ==
    IF part.err \/ acc.err THEN Acc(acc.ok, acc.some, acc.elem, TRUE)
    ELSE IF ~part.some THEN acc
    ELSE LET is_mrgb == part.ok /\ acc.ok /\ (~acc.some \/ acc.elem = part.elem)
         IN IF is_mrgb THEN Acc(TRUE, TRUE, part.elem, FALSE)
            ELSE Acc(FALSE, FALSE, EmptyMap, FALSE)

\* the accumulators (joined so far, open part) after probe k and the ones
\* before it, over every way to cut the list of probes into consecutive parts
RECURSIVE mergable_fold(_, _, _)
mergable_fold(probes, k, S) ==
    IF k > Len(probes)
    THEN {join_part(s.joined, s.part) : s \in S}
    ELSE mergable_fold(probes, k + 1,
            {[joined |-> s.joined, part |-> fold_probe(s.part, probes[k])] : s \in S}
            \cup {[joined |-> join_part(s.joined, s.part),
                   part |-> fold_probe(AccInit, probes[k])] : s \in S})

\* WorkCache::check_if_mergable(graph, engine, sts): the results it can
\* return, one for each outcome of the parallel fold
check_if_mergable(events, sts, F) ==
    LET b == mergable_bases(events, sts, SortedSeq(F), EmptyMap)
    IN IF b.kind # "ok"
       THEN {[kind |-> b.kind, err |-> b.err, sts |-> b.sts, some |-> FALSE, elem |-> EmptyMap]}
       ELSE LET pairs == mergable_pairs(b.bases, F)
                probes == [k \in DOMAIN pairs |-> mergable_probe(events, b.sts, pairs[k])]
            IN {IF a.err
                THEN [kind |-> "err", err |-> "Engine", sts |-> b.sts, some |-> FALSE,
                      elem |-> EmptyMap]
                ELSE [kind |-> "ok", err |-> "", sts |-> b.sts, some |-> a.some,
                      elem |-> a.elem] :
                a \in mergable_fold(probes, 1, {[joined |-> AccInit, part |-> AccInit]})}

\* the loop of try_merge over the incoming frontier, in ascending order
RECURSIVE merge_loop(_, _, _, _, _)
RECURSIVE merge_shelved(_, _, _, _)
\* merge_loop that re-shelves the ancestors too
merge_loop_noskip(events, sts, full_seed_deps, seed_deps, todo) ==
    IF todo = <<>> THEN CallRes("ok", "", 0, events, sts)
    ELSE merge_shelved(full_seed_deps, seed_deps, todo,
                       shelve_event(events, sts, seed_deps, events[Head(todo)]))

\* merge_shelved that goes on with the hash of the re-shelved event
merge_shelved_newhash(full_seed_deps, seed_deps, todo, r) ==
    IF r.kind = "none" THEN CallRes("err", "NoopAtMerge", Head(todo), r.events, r.sts)
    ELSE IF r.kind # "some" THEN r
    ELSE IF /\ r.h # Head(todo)
            /\ ~(HardDeps(r.events[r.h]) # HardDeps(r.events[Head(todo)]))
         THEN CallRes("err", "HashChangeAtMerge", Head(todo), r.events, r.sts)
         ELSE merge_loop(r.events, r.sts, full_seed_deps,
                         seed_deps \cup {r.h}, Tail(todo))

merge_loop(events, sts, full_seed_deps, seed_deps, todo) ==
    IF todo = <<>> THEN CallRes("ok", "", 0, events, sts)
    ELSE IF Head(todo) \in full_seed_deps
         THEN merge_loop(events, sts, full_seed_deps, seed_deps, Tail(todo))
         ELSE merge_shelved(full_seed_deps, seed_deps, todo,
                            shelve_event(events, sts, seed_deps, events[Head(todo)]))

\* the event Head(todo) of the incoming frontier after its re-shelve r
merge_shelved(full_seed_deps, seed_deps, todo, r) ==
    IF r.kind = "none" THEN CallRes("err", "NoopAtMerge", Head(todo), r.events, r.sts)
    ELSE IF r.kind # "some" THEN r
    ELSE IF /\ r.h # Head(todo)
            /\ ~(HardDeps(r.events[r.h]) # HardDeps(r.events[Head(todo)]))
         THEN CallRes("err", "HashChangeAtMerge", Head(todo), r.events, r.sts)
         ELSE merge_loop(r.events, r.sts, full_seed_deps,
                         seed_deps \cup {Head(todo)}, Tail(todo))

\* try_merge that starts from an empty seed set
try_merge_noseeds(events, sts, incoming) ==
    LET d == calculate_dependencies(events, {}, [h \in incoming |-> "IncludeOnlyDeps"])
    IN IF ~d.ok THEN CallRes("err", d.err, 0, events, sts)
       ELSE merge_loop(events, sts, {d.ret[k] : k \in 1 .. Len(d.ret)}, {}, SortedSeq(incoming))

\* WorkCache::try_merge(graph, sts)
try_merge(events, sts, incoming) ==
    LET d == calculate_dependencies(events, {}, [h \in incoming |-> "IncludeOnlyDeps"])
    IN IF ~d.ok THEN CallRes("err", d.err, 0, events, sts)
       ELSE LET full_seed_deps == {d.ret[k] : k \in 1 .. Len(d.ret)}
                f == fold_state(events, [h \in full_seed_deps |-> FALSE], FALSE)
            IN IF ~f.ok THEN CallRes("err", "DependencyNotFound", 0, events, sts)
               ELSE merge_loop(events, sts, full_seed_deps, DOMAIN f.st, SortedSeq(incoming))

\* ---------------------------------------------------------------- sessions
\* the commands of a harness session: search-and-replace arguments over
\* "a" = 1 and "b" = 2
Sear(s, r) == [search |-> s, replacement |-> r]
Args == {Sear(<<1>>, <<1, 1>>), Sear(<<1>>, <<2>>), Sear(<<2>>, <<>>),
         Sear(<<2>>, <<1, 2>>), Sear(<<2, 1>>, <<1, 2>>), Sear(<<1, 1>>, <<>>),
         Sear(<<1, 2>>, <<2>>), Sear(<<2>>, <<1, 1>>), Sear(<<1, 1>>, <<1>>)}
\* the initial payloads
Starts == {<<1>>, <<1, 2>>, <<1, 2, 1>>}

Hashes == 0 .. (HashSpace - 1)

VARIABLES
    events,  \* graph.events: Hash -> Event
    sts,     \* the work cache: set of applied hashes -> payload
    start,   \* the payload WorkCache::new was given
    xs,      \* the hashes returned by shelve_event so far
    oldxs,   \* the frontier the events to merge are shelved against
    folded,  \* the last fold_state call: its arguments and its result
    loop,    \* the shelve_event call under way: its loop state and its rounds
    walk,    \* the last stack-driven replay: its arguments and its result
    tracker, \* the ApplyTracker: its top, the last call on it and its result
    histate, \* the HiState: its top, its inner payload, the runs it accepted
    sears,   \* the arguments submitted so far, in order
    nops,    \* the number of calls made so far
    last     \* the last call and its result

vars ==
    <<events, sts, start, xs, oldxs, folded, loop, walk, tracker, histate, sears, nops, last>>

NoEvent == [cmd |-> 0, arg |-> [search |-> <<>>, replacement |-> <<>>], deps |-> EmptyMap]

\* the record of a call: its arguments, its result, and by how many entries
\* graph.events grew
LastOf(op, ev, seeds, r) ==
    [op |-> op, ev |-> ev, seeds |-> seeds, kind |-> r.kind, err |-> r.err, h |-> r.h,
     grew |-> Cardinality(DOMAIN r.events) - Cardinality(DOMAIN events),
     cgrew |-> Cardinality(DOMAIN r.sts) - Cardinality(DOMAIN sts)]

\* Graph::default() and WorkCache::new(&e, start)
\* no fold_state call yet
NoFold == [seed |-> EmptyMap, expand |-> FALSE, ok |-> TRUE, st |-> EmptyMap]

\* no shelve_event call under way
NoLoop ==
    [phase |-> "idle", ev |-> NoEvent, st |-> "loop", err |-> "", seed_deps |-> {},
     cur_deps |-> EmptyMap, rounds |-> <<>>]

\* no stack-driven replay yet
NoWalk ==
    [n |-> 0, op |-> "none", tt0 |-> {}, evids |-> EmptyMap, kind |-> "ok", err |-> "",
     tt |-> {}, ran |-> <<>>, cached |-> {}, some |-> FALSE, elem |-> EmptyMap]

\* ApplyTracker::default(), no call made yet
NoTracker ==
    [op |-> "none", top0 |-> {}, top |-> {}, nid |-> 0, deps |-> {}, tags |-> EmptyMap,
     ids |-> <<>>, ran |-> <<>>, data |-> <<>>, res |-> "Ok", x |-> 0]

\* HiState { top: BTreeSet::new(), inner }, no event run yet
NoHiState == [top |-> {}, inner |-> start, ran |-> <<>>, nid |-> 0, res |-> "none", x |-> 0]

Init ==
    /\ start \in Starts
    /\ events = [h \in {} |-> NoEvent]
    /\ sts = NewCache(start)
    /\ xs = {}
    /\ oldxs = {}
    /\ folded = NoFold
    /\ loop = NoLoop
    /\ walk = NoWalk
    /\ tracker = NoTracker
    /\ histate = NoHiState
    /\ sears = <<>>
    /\ nops = 0
    /\ last = LastOf("new", NoEvent, {}, CallRes("none", "", 0, events, sts))

Failed == last.kind \in {"err", "panic", "diverge"}

\* assert_no_reorder_inner / fuzz_target: shelve the next event against xs;
\* the harness stops at the first Err (expect)
ShelveXs(a) ==
    /\ nops < MaxSears
    /\ ~Failed
    /\ \E r \in {shelve_event(events, sts, xs, [cmd |-> 0, arg |-> a, deps |-> EmptyMap])} :
          /\ events' = r.events
          /\ sts' = r.sts
          /\ xs' = IF r.kind = "some" THEN xs \cup {r.h} ELSE xs
          /\ sears' = Append(sears, a)
          /\ last' = LastOf("shelve", [cmd |-> 0, arg |-> a, deps |-> EmptyMap], xs, r)
    /\ nops' = nops + 1
    /\ UNCHANGED <<tracker, histate, walk, loop, start, oldxs, folded>>

NextSeq == \E a \in Args : ShelveXs(a)

SpecSeq == Init /\ [][NextSeq]_vars

\* ----------------------------------------------------------- merge sessions
\* assert_simple_merge (for i in common_sears): shelve against xs; the
\* harness unwraps the result twice, so it goes on after Some(h) only
Common(a) ==
    /\ last.op \in {"new", "shelve"}
    /\ last.kind \in {"none", "some"}
    /\ last.op = "shelve" => last.kind = "some"
    /\ ShelveXs(a)

\* assert_simple_merge (for i in tomerge_sears): shelve against oldxs, the
\* clone of xs taken when the common events were done
ToMerge(a) ==
    /\ nops < MaxSears
    /\ last.op \in {"new", "shelve", "tomerge"}
    /\ last.op # "new" => last.kind = "some"
    /\ \E base \in {IF last.op = "tomerge" THEN oldxs ELSE xs} :
       \E r \in {shelve_event(events, sts, base, [cmd |-> 0, arg |-> a, deps |-> EmptyMap])} :
          /\ events' = r.events
          /\ sts' = r.sts
          /\ xs' = IF r.kind = "some" THEN xs \cup {r.h} ELSE xs
          /\ oldxs' = base
          /\ sears' = Append(sears, a)
          /\ last' = LastOf("tomerge", [cmd |-> 0, arg |-> a, deps |-> EmptyMap], base, r)
    /\ nops' = nops + 1
    /\ UNCHANGED <<tracker, histate, walk, loop, start, folded>>

\* assert_simple_merge / merge_after_clear: try_merge on xs once every shelve
\* has returned Some(h)
MergeXs ==
    /\ last.op \in {"shelve", "tomerge"}
    /\ last.kind = "some"
    /\ \E r \in {try_merge(events, sts, xs)} :
          /\ events' = r.events
          /\ sts' = r.sts
          /\ last' = LastOf("merge", NoEvent, xs, r)
    /\ nops' = nops + 1
    /\ UNCHANGED <<tracker, histate, walk, loop, start, xs, oldxs, folded, sears>>

NextMerge ==
    \/ \E a \in Args : Common(a)
    \/ \E a \in Args : ToMerge(a)
    \/ MergeXs

SpecMerge == Init /\ [][NextMerge]_vars

\* ------------------------------------------------------------ free sessions
\* a hash that is not in the graph (a frontier naming it is dangling)
Ghost == Min(Hashes \ DOMAIN events)

\* the commands of a free session
FreeArgs == {Sear(<<1>>, <<1, 1>>), Sear(<<2>>, <<>>), Sear(<<1>>, <<2>>),
             Sear(<<1, 2>>, <<2>>)}

\* the deps a caller leaves in the candidate it hands to shelve_event: stale
\* ones, the events outside the frontier and a hash that is not in the graph
CandDeps(F) == [h \in (DOMAIN events \ F) \cup {Ghost} |-> TRUE]

\* the deps of an imported event: none, or one event of the graph (hard or soft)
ImportDeps == {EmptyMap} \cup {(h :> b) : h \in DOMAIN events, b \in BOOLEAN}

\* shelve_event against any frontier of existing events, with any candidate deps
Shelve(F, a, d) ==
    /\ nops < MaxOps
    /\ \E r \in {shelve_event(events, sts, F, [cmd |-> 0, arg |-> a, deps |-> d])} :
          /\ events' = r.events
          /\ sts' = r.sts
          /\ xs' = IF r.kind = "some" THEN xs \cup {r.h} ELSE xs
          /\ last' = LastOf("shelve", [cmd |-> 0, arg |-> a, deps |-> d], F, r)
    /\ nops' = nops + 1
    /\ UNCHANGED <<tracker, histate, walk, loop, start, oldxs, folded, sears>>

\* Graph::ensure_event with an event whose deps are in the graph (an import)
Ensure(a, d) ==
    /\ nops < MaxOps
    /\ \E r \in {ensure_event(events, [cmd |-> 0, arg |-> a, deps |-> d])} :
          /\ events' = r.events
          /\ last' = LastOf("ensure", [cmd |-> 0, arg |-> a, deps |-> d], {},
                            CallRes(IF r.coll THEN "coll" ELSE "ok", "", r.h, r.events, sts))
    /\ nops' = nops + 1
    /\ UNCHANGED <<tracker, histate, walk, loop, sts, start, xs, oldxs, folded, sears>>

\* WorkCache::try_merge on a frontier
Merge(F) ==
    /\ nops < MaxOps
    /\ \E r \in {try_merge(events, sts, F)} :
          /\ events' = r.events
          /\ sts' = r.sts
          /\ last' = LastOf("merge", NoEvent, F, r)
    /\ nops' = nops + 1
    /\ UNCHANGED <<tracker, histate, walk, loop, start, xs, oldxs, folded, sears>>

\* WorkCache::run_foreach_recursively on a frontier, every element IncludeAll
Replay(F) ==
    /\ nops < MaxOps
    /\ \E r \in {run_foreach_recursively(events, sts, AllOf(F))} :
          /\ sts' = r.sts
          /\ last' = LastOf("replay", NoEvent, F,
                            CallRes(IF r.ok THEN "ok" ELSE "err", r.err, 0, events, r.sts))
    /\ nops' = nops + 1
    /\ UNCHANGED <<tracker, histate, walk, loop, events, start, xs, oldxs, folded, sears>>

Frontiers == SUBSET (DOMAIN events)
\* the frontiers a caller may pass: of existing events, or a dangling one
AnyFrontiers == Frontiers \cup {DOMAIN events \cup {Ghost}}

Next ==
    \/ \E F \in AnyFrontiers, a \in FreeArgs : Shelve(F, a, CandDeps(F))
    \/ \E a \in FreeArgs, d \in ImportDeps : Ensure(a, d)
    \/ \E F \in AnyFrontiers : Merge(F)
    \/ \E F \in Frontiers : Replay(F)

Spec == Init /\ [][Next]_vars

\* ------------------------------------------------------------ fold sessions
\* the events a caller stores before it folds: ensure_event takes any deps,
\* stored or not
FoldArgs == {Sear(<<1>>, <<1, 1>>), Sear(<<2>>, <<>>)}
FoldDeps == {[h \in D |-> TRUE] : D \in {E \in SUBSET (DOMAIN events \cup {Ghost}) : Cardinality(E) <= 2}}

\* the states a caller may pass to fold_state
FoldSeeds == UNION {[D -> BOOLEAN] : D \in SUBSET (DOMAIN events \cup {Ghost})}

\* Graph::fold_state(st, expand) on the stored events
Fold(seed, expand) ==
    /\ last.op # "fold"
    /\ \E r \in {fold_state(events, seed, expand)} :
          /\ folded' = [seed |-> seed, expand |-> expand, ok |-> r.ok, st |-> r.st]
          /\ last' = LastOf("fold", NoEvent, DOMAIN seed,
                            CallRes(IF r.ok THEN "some" ELSE "none", "", 0, events, sts))
    /\ UNCHANGED <<tracker, histate, walk, loop, events, sts, start, xs, oldxs, sears, nops>>

NextFold ==
    \/ \E a \in FoldArgs, d \in FoldDeps : last.op # "fold" /\ Ensure(a, d)
    \/ \E seed \in FoldSeeds, expand \in BOOLEAN : Fold(seed, expand)

SpecFold == Init /\ [][NextFold]_vars

\* ================================================================== claims
\* the sequential fold of the harness: the submitted arguments applied in order
RECURSIVE FoldSears(_, _)
FoldSears(todo, dat) ==
    IF todo = <<>> THEN [ok |-> TRUE, dat |-> dat]
    ELSE LET r == run_event_bare(0, Head(todo), dat)
         IN IF ~r.ok THEN r ELSE FoldSears(Tail(todo), r.dat)

Expected == FoldSears(sears, start)

\* minx: the leaves of xs; and its replay with the session's cache
Minx == fold_state(events, [y \in xs |-> FALSE], FALSE)
ReplayMinx == run_foreach_recursively(events, sts, AllOf(DOMAIN Minx.st))

\* C1: after a session of successful shelve_event calls, each against all the
\* hashes returned so far, replaying the leaves of xs yields the payload of
\* the sequential application of the submitted events
ShelveSoundness ==
    ~Failed => /\ Minx.ok
               /\ ReplayMinx.ok
               /\ Expected.ok
               /\ ReplayMinx.dat = Expected.dat

\* a session that shelved three events, two of them siblings, and replays them
ShelveSoundnessWitness ==
    /\ ~Failed
    /\ Cardinality(xs) = 3
    /\ Cardinality(DOMAIN Minx.st) = 2
    /\ ReplayMinx.ok
    /\ ReplayMinx.dat = Expected.dat

\* all orders of the elements of a set
RECURSIVE Perms(_)
Perms(S) ==
    IF S = {} THEN {<<>>}
    ELSE UNION {{<<x>> \o p : p \in Perms(S \ {x})} : x \in S}

\* an order of events in which every event comes after all its deps (hard and soft)
IsTopological(seq) ==
    \A i \in 1 .. Len(seq) :
        \A d \in DOMAIN events[seq[i]].deps : \E j \in 1 .. (i - 1) : seq[j] = d

TopoOrders(S) == {p \in Perms(S) : IsTopological(p)}

\* C2: every cache entry (S -> p) of a harness session has S dependency-closed,
\* and the replay of the events of S from the initial payload, in any
\* topological order the engine accepts, yields p
ClosureCorrectness ==
    \A S \in DOMAIN sts :
        /\ S \subseteq DOMAIN events
        /\ \A p \in TopoOrders(S) :
              LET r == apply_bare(events, p, start) IN r.ok => r.dat = sts[S]

\* a cached set of events with more than one topological order
ClosureCorrectnessWitness ==
    \E S \in DOMAIN sts :
        /\ Cardinality(S) >= 2
        /\ Cardinality(TopoOrders(S)) >= 2
        /\ \A p \in TopoOrders(S) : apply_bare(events, p, start).ok

\* C3: the applied set returned by the replay of the leaves of xs is xs
CompressionKeepsEvents ==
    ~Failed => /\ Minx.ok
               /\ ReplayMinx.ok
               /\ ReplayMinx.tt = xs

\* three shelved events compressed to a single leaf and replayed to all three
CompressionKeepsEventsWitness ==
    /\ ~Failed
    /\ Cardinality(xs) = 3
    /\ Cardinality(DOMAIN Minx.st) = 1
    /\ ReplayMinx.ok
    /\ ReplayMinx.tt = xs

\* C4: every entry (h, e) of graph.events has h = hash(serialize(e)), whatever
\* calls of ensure_event, shelve_event and try_merge were made
ContentAddressing ==
    \A h \in DOMAIN events : h = HashOf(events[h])

\* a graph of two or more events, one of them shelved with a dep, that went
\* through a merge
ContentAddressingWitness ==
    /\ last.op = "merge"
    /\ last.kind = "ok"
    /\ Cardinality(DOMAIN events) >= 2
    /\ \E h \in xs : DOMAIN events[h].deps # {}
    /\ \A h \in DOMAIN events : h = HashOf(events[h])

\* the events reachable from a set of hashes through deps (hard and soft)
RECURSIVE Closure(_)
Closure(S) ==
    LET nx == S \cup UNION {DOMAIN events[h].deps : h \in S \cap DOMAIN events}
    IN IF nx = S THEN S ELSE Closure(nx)

\* C5: every dep of a stored event is itself stored and differs from the
\* event's hash, no event reaches itself through deps, and the deps of the
\* event a successful shelve_event returned lie inside the dependency closure
\* of the frontier the call was given
GraphStructure ==
    /\ \A h \in DOMAIN events :
          /\ DOMAIN events[h].deps \subseteq DOMAIN events
          /\ h \notin Closure(DOMAIN events[h].deps)
    /\ (last.op = "shelve" /\ last.kind = "some")
          => DOMAIN events[last.h].deps \subseteq Closure(last.seeds)

\* a shelve against a frontier of two events that chose a dep below the frontier
GraphStructureWitness ==
    /\ last.op = "shelve"
    /\ last.kind = "some"
    /\ last.grew = 1
    /\ DOMAIN events[last.h].deps # {}
    /\ DOMAIN events[last.h].deps \subseteq Closure(last.seeds)
    /\ \E h \in DOMAIN events : \E d \in DOMAIN events[h].deps : DOMAIN events[d].deps # {}

\* C6: no call removes an entry of graph.events or changes the event stored
\* under a hash; ensure_event on an event whose hash is taken by a different
\* event returns (Some(ev), h) and leaves the store as it was
EventsGrowOnly ==
    [][/\ \A h \in DOMAIN events : h \in DOMAIN events' /\ events'[h] = events[h]
       /\ (/\ last'.op = "ensure"
           /\ HashOf(last'.ev) \in DOMAIN events
           /\ events[HashOf(last'.ev)] # last'.ev)
             => /\ last'.kind = "coll"
                /\ last'.h = HashOf(last'.ev)
                /\ events' = events]_vars

\* ensure_event just returned a collision: the hash holds another event
EventsGrowOnlyWitness ==
    /\ last.op = "ensure"
    /\ last.kind = "coll"
    /\ last.h \in DOMAIN events
    /\ events[last.h] # last.ev
    /\ last.grew = 0

\* C7: ensure_event on an event whose hash is free inserts it and returns
\* (None, h); on an event that is already stored it returns the same (None, h)
\* and leaves graph.events unchanged
EnsureIdempotent ==
    [][last'.op = "ensure" =>
        LET e == last'.ev
            h == HashOf(e)
        IN /\ h \notin DOMAIN events
                => /\ last'.kind = "ok"
                   /\ last'.h = h
                   /\ events' = (h :> e) @@ events
           /\ (h \in DOMAIN events /\ events[h] = e)
                => /\ last'.kind = "ok"
                   /\ last'.h = h
                   /\ events' = events]_vars

\* a later ensure_event of an event that is already stored
EnsureIdempotentWitness ==
    /\ last.op = "ensure"
    /\ last.kind = "ok"
    /\ last.grew = 0
    /\ last.h \in DOMAIN events
    /\ events[last.h] = last.ev

\* C8: when the candidate leaves the payload of the given frontier unchanged,
\* shelve_event returns Ok(None) and graph.events stays as it was
NoopDetection ==
    [][last'.op = "shelve" =>
        LET base == run_foreach_recursively(events, sts, AllOf(last'.seeds))
            cur == run_event_bare(last'.ev.cmd, last'.ev.arg, base.dat)
        IN (base.ok /\ cur.ok /\ cur.dat = base.dat)
              => /\ last'.kind = "none"
                 /\ events' = events]_vars

\* a no-op candidate shelved against a non-empty frontier: Ok(None)
NoopDetectionWitness ==
    /\ last.op = "shelve"
    /\ last.kind = "none"
    /\ last.seeds # {}
    /\ last.grew = 0
    /\ LET base == run_foreach_recursively(events, sts, AllOf(last.seeds))
       IN base.ok /\ run_event_bare(last.ev.cmd, last.ev.arg, base.dat).dat = base.dat

\* deps a candidate may carry into shelve_event: none, or the frontier as
\* soft deps with a dangling hard one
OtherDeps(F) ==
    {EmptyMap, [h \in F \cup {Ghost} |-> h = Ghost]}

\* C9: a shelve_event call gives the result (kind, error, hash, graph.events)
\* of the same call made with any other deps in the candidate
ShelveIgnoresDeps ==
    [][last'.op = "shelve" =>
        \A d \in OtherDeps(last'.seeds) :
            LET r == shelve_event(events, sts, last'.seeds, [last'.ev EXCEPT !.deps = d])
            IN /\ r.kind = last'.kind
               /\ r.err = last'.err
               /\ r.h = last'.h
               /\ r.events = events']_vars

\* a successful shelve_event of a candidate that carried stale deps, none of
\* which the inserted event has
ShelveIgnoresDepsWitness ==
    /\ last.op = "shelve"
    /\ last.kind = "some"
    /\ last.grew = 1
    /\ last.seeds # {}
    /\ DOMAIN last.ev.deps # {}
    /\ DOMAIN events[last.h].deps # {}
    /\ DOMAIN events[last.h].deps \cap DOMAIN last.ev.deps = {}

\* C10: a shelve_event call that does not return Some(hash) leaves
\* graph.events as it was; one that does inserts at most the one event it
\* returns the hash of
ShelveInsertsOnce ==
    [][last'.op = "shelve" =>
        /\ last'.kind # "some" => events' = events
        /\ last'.kind = "some"
              => /\ last'.h \in DOMAIN events'
                 /\ \A h \in DOMAIN events' : h \in DOMAIN events \/ h = last'.h
                 /\ \A h \in DOMAIN events : events'[h] = events[h]]_vars

\* a shelve_event call that ran its rounds and failed at the registration
ShelveInsertsOnceWitness ==
    /\ last.op = "shelve"
    /\ last.kind = "err"
    /\ last.err = "HashCollision"
    /\ last.grew = 0

\* C11: a try_merge call that returns an error (HashChangeAtMerge,
\* NoopAtMerge or a propagated error) leaves graph.events exactly as it was
\* before the call.
MergeFailureLeavesGraph ==
    [][(last'.op = "merge" /\ last'.kind = "err") => events' = events]_vars

\* C12: the work cache is write-once and grow-only: it starts as the single
\* entry (empty set -> initial payload), no step removes an entry or replaces
\* the payload stored under an existing key, so the empty-set entry is always
\* there and no call fails with DatasetNotFound.
CacheWriteOnce ==
    /\ sts = NewCache(start)
    /\ [][/\ \A S \in DOMAIN sts : S \in DOMAIN sts' /\ sts'[S] = sts[S]
          /\ {} \in DOMAIN sts'
          /\ sts'[{}] = start
          /\ last'.err # "DatasetNotFound"]_vars

CacheWriteOnceWitness ==
    /\ last.op = "replay"
    /\ last.kind = "ok"
    /\ nops = MaxOps
    /\ Cardinality(DOMAIN sts) >= 4

\* every entry of the cache c is a stored set of events with the payload of
\* applying them, deps first, to the initial payload
CacheSound(c) ==
    \A S \in DOMAIN c :
        /\ S \subseteq DOMAIN events
        /\ \E p \in TopoOrders(S) : apply_bare(events, p, start) = [ok |-> TRUE, dat |-> c[S]]

\* C13: after any sequence of operations, failed ones included, every cache
\* entry (S -> p) has p equal to the payload of applying the events of S to
\* the initial payload; a replay that fails on an engine error or a missing
\* dependency leaves the cache sound, inserts no entry for the key it was
\* computing and keeps the entries it inserted before the failure.
CacheSoundUnderFailure ==
    /\ CacheSound(sts)
    /\ \A F \in AnyFrontiers :
          \A r \in {run_foreach_recursively(events, sts, AllOf(F))} :
             /\ CacheSound(r.sts)
             /\ \A S \in DOMAIN sts : S \in DOMAIN r.sts /\ r.sts[S] = sts[S]
             /\ ~r.ok => Closure(F) \notin DOMAIN r.sts
             /\ r.ok => r.tt = Closure(F) /\ r.sts[r.tt] = r.dat

\* a replay aborted by an engine error after it had inserted an entry
CacheSoundUnderFailureWitness ==
    \E F \in Frontiers :
       \E r \in {run_foreach_recursively(events, sts, AllOf(F))} :
          /\ r.err = "Engine"
          /\ Cardinality(DOMAIN r.sts) > Cardinality(DOMAIN sts)

\* the re-shelve try_merge makes of a single incoming event i: against the
\* leaves of the deps of i
ReShelve(i) ==
    shelve_event(events, sts,
                 DOMAIN fold_state(events, [h \in Closure(DOMAIN events[i].deps) |-> FALSE], FALSE).st,
                 events[i])

\* C14: when the re-shelve of an incoming event h gives a different hash h',
\* try_merge goes on if the hard deps of the two events are equal and fails
\* with HashChangeAtMerge(h, h') if they differ.
HashChangeRule ==
    [][\A i \in DOMAIN events :
          (last'.op = "merge" /\ last'.seeds = {i}) =>
             \A r \in {ReShelve(i)} :
                (r.kind = "some" /\ r.h # i) =>
                   IF HardDeps(r.events[r.h]) = HardDeps(r.events[i])
                   THEN last'.kind = "ok"
                   ELSE last'.kind = "err" /\ last'.err = "HashChangeAtMerge" /\ last'.h = i]_vars

\* the ancestors of the frontier F
Ancestors(F) == Closure(UNION {DOMAIN events[i].deps : i \in F})

\* the leaves of the set S of events
Leaves(S) == {h \in S : \A g \in S : h \notin DOMAIN events[g].deps}

\* the merge the claim describes, the elements of todo taken in order; stop is
\* the element at which a changed hash ends the merge, which the claim leaves open
RECURSIVE MergeInOrder(_, _, _, _, _)
RECURSIVE MergeInOrderShelved(_, _, _, _)
MergeInOrder(ev, c, seeds, todo, stop) ==
    MergeInOrderShelved(seeds, todo, stop, shelve_event(ev, c, seeds, ev[Head(todo)]))

MergeInOrderShelved(seeds, todo, stop, r) ==
    IF r.kind = "none" THEN CallRes("err", "NoopAtMerge", Head(todo), r.events, r.sts)
    ELSE IF r.kind # "some" THEN r
    ELSE IF Head(todo) = stop /\ r.h # Head(todo)
         THEN CallRes("err", "HashChangeAtMerge", Head(todo), r.events, r.sts)
         ELSE IF Tail(todo) = <<>> THEN CallRes("ok", "", 0, r.events, r.sts)
              ELSE MergeInOrder(r.events, r.sts, seeds \cup {Head(todo)}, Tail(todo), stop)

\* C15: incoming elements that are ancestors of other incoming elements are
\* not re-shelved; every other element h is re-shelved, in ascending order,
\* against the current seed set, the merge fails with NoopAtMerge(h) exactly
\* when that re-shelve returns None, and otherwise the original hash h is
\* added to the seed set used for the following elements.
MergeProcessingOrder ==
    [][last'.op = "merge" =>
          \A ref \in {MergeInOrder(events, sts, Leaves(Ancestors(xs)),
                                   SortedSeq(xs \ Ancestors(xs)),
                                   IF last'.err = "HashChangeAtMerge" THEN last'.h ELSE HashSpace)} :
             /\ last'.kind = ref.kind
             /\ last'.err = ref.err
             /\ last'.h = ref.h
             /\ events' = ref.events
             /\ sts' = ref.sts]_vars

\* a merge of three siblings whose second element changed its hash and whose
\* third was re-shelved to None
MergeProcessingOrderWitness ==
    /\ last.op = "merge"
    /\ last.err = "NoopAtMerge"
    /\ Cardinality(xs \ Ancestors(xs)) = 3
    /\ last.h = SortedSeq(xs)[3]
    /\ last.grew = 1

\* C17: for a frontier produced by successive shelve_event calls on one
\* history, each against all previous hashes, try_merge succeeds: it reports
\* neither NoopAtMerge nor HashChangeAtMerge, even when an event clears the
\* payload, and the replay of the frontier afterwards gives the sequential result.
LinearMerge ==
    [][(last.op = "shelve" /\ last'.op = "merge") =>
          /\ last'.kind = "ok"
          /\ \A r \in {run_foreach_recursively(events', sts', AllOf(xs))} :
                r.ok /\ Expected.ok /\ r.dat = Expected.dat]_vars

\* a chain of dependent events, the last of which clears the payload, merged
LinearMergeWitness ==
    /\ last.op = "merge"
    /\ last.kind = "ok"
    /\ oldxs = {}
    /\ Cardinality(xs) >= 2
    /\ \A h \in xs : h = Min(xs) \/ events[h].deps # EmptyMap
    /\ Expected.ok
    /\ Expected.dat = <<>>

\* the payload of the events sears applied in order to dat, <<>> paired with
\* ok = FALSE on an engine error
Applied(todo, dat) == FoldSears(todo, dat)

\* the two events a and b commute on the payload dat
Commute(a, b, dat) ==
    /\ Applied(<<a, b>>, dat).ok
    /\ Applied(<<b, a>>, dat).ok
    /\ Applied(<<a, b>>, dat).dat = Applied(<<b, a>>, dat).dat

\* a and b commute on dat and each of them still changes the payload the
\* other one leaves
CommuteBothActing(a, b, dat) ==
    /\ Commute(a, b, dat)
    /\ Applied(<<a, b>>, dat).dat # Applied(<<a>>, dat).dat
    /\ Applied(<<b, a>>, dat).dat # Applied(<<b>>, dat).dat

DepsIn(S) == UNION {DOMAIN events[h].deps : h \in S \cap DOMAIN events}

\* C18 as stated: fold_state with expand = true returns a map whose key set is
\* the dependency closure of the seed's keys, in which every entry found by
\* dependency expansion is flagged true and every seed entry keeps the flag
\* it was given.
FoldExpandKeepsFlags ==
    (last.op = "fold" /\ folded.expand /\ folded.ok) =>
        /\ DOMAIN folded.st = Closure(DOMAIN folded.seed)
        /\ \A h \in DOMAIN folded.st :
              folded.st[h] = IF h \in DOMAIN folded.seed THEN folded.seed[h] ELSE TRUE

\* C18: fold_state with expand = true returns a map whose key set is the
\* dependency closure of the seed's keys, in which every entry that is a dep
\* of an event of the closure is flagged true, whatever flag the seed gave
\* it, and every other entry keeps the flag the seed gave it.
FoldExpand ==
    (last.op = "fold" /\ folded.expand /\ folded.ok) =>
        /\ DOMAIN folded.st = Closure(DOMAIN folded.seed)
        /\ \A h \in DOMAIN folded.st :
              folded.st[h] = IF h \in DepsIn(DOMAIN folded.st) THEN TRUE ELSE folded.seed[h]

\* an expansion that found an event outside the seed, flagged a seed entry
\* that is a dep, and kept the flag of a seed entry that is not
FoldExpandWitness ==
    /\ last.op = "fold"
    /\ folded.expand
    /\ folded.ok
    /\ DOMAIN folded.st # DOMAIN folded.seed
    /\ \E h \in DOMAIN folded.seed : ~folded.seed[h] /\ folded.st[h]
    /\ \E g \in DOMAIN folded.seed : ~folded.seed[g] /\ ~folded.st[g]

\* C19: fold_state with expand = false, given a seed whose entries are all
\* flagged false, returns exactly the leaves of the seed's closure: the
\* hashes of the closure that are not among the deps of any event of the closure.
FoldCompress ==
    (/\ last.op = "fold"
     /\ ~folded.expand
     /\ folded.ok
     /\ \A h \in DOMAIN folded.seed : ~folded.seed[h]) =>
        /\ DOMAIN folded.st = Leaves(Closure(DOMAIN folded.seed))
        /\ \A h \in DOMAIN folded.st : ~folded.st[h]

\* a compression that dropped a seed entry because it is an indirect dep of
\* another one, through an event outside the seed
FoldCompressWitness ==
    /\ last.op = "fold"
    /\ ~folded.expand
    /\ folded.ok
    /\ \A h \in DOMAIN folded.seed : ~folded.seed[h]
    /\ Cardinality(DOMAIN folded.seed) = 2
    /\ Cardinality(DOMAIN folded.st) = 1
    /\ Cardinality(Closure(DOMAIN folded.seed)) = 3
    /\ \A h, g \in DOMAIN folded.seed : h \notin DOMAIN events[g].deps

\* C20: fold_state fails whenever some hash in the seed or reached through
\* deps is absent from the stored events, and succeeds otherwise, at the
\* fixpoint of the expansion: no pass over the result finds a new entry.
FoldFailsOnMissing ==
    last.op = "fold" =>
        /\ folded.ok <=> Closure(DOMAIN folded.seed) \subseteq DOMAIN events
        /\ (folded.ok /\ folded.expand) =>
              DOMAIN FoldPass(events, folded.st) = DOMAIN folded.st

\* a fold that failed on an absent hash it reached only in its second pass
FoldFailsOnMissingWitness ==
    /\ last.op = "fold"
    /\ ~folded.ok
    /\ DOMAIN folded.seed \subseteq DOMAIN events
    /\ DepsIn(DOMAIN folded.seed) \subseteq DOMAIN events

\* C21: for every seed on which fold_state succeeds, folding the result
\* again with the same expand gives the result back, for expand = true and
\* for expand = false.
FoldIdempotent ==
    (last.op = "fold" /\ folded.ok) =>
        fold_state(events, folded.st, folded.expand) = [ok |-> TRUE, st |-> folded.st]

\* a fold over a closure of three events that changed a seed with a flagged entry
FoldIdempotentWitness ==
    /\ last.op = "fold"
    /\ folded.ok
    /\ folded.st # folded.seed
    /\ folded.st # EmptyMap
    /\ Cardinality(Closure(DOMAIN folded.seed)) = 3
    /\ \E h \in DOMAIN folded.seed : folded.seed[h]

\* the replay of the frontier F with the session's cache, every element IncludeAll
ReplayOf(F) == run_foreach_recursively(events, sts, AllOf(F))

\* the compressed form of the frontier F
Compressed(F) == fold_state(events, [h \in F |-> FALSE], FALSE)

OrderFree(F) ==
    \A p, q \in TopoOrders(Closure(F)) : apply_bare(events, p, start) = apply_bare(events, q, start)

LoopOf(l, cache) == LoopSt(l.st, l.err, l.seed_deps, l.cur_deps, cache)

\* shelve_event up to its while loop: the expected state and the no-op check
Begin(a) ==
    /\ loop.phase = "idle"
    /\ nops <= MaxSears
    /\ ~Failed
    /\ \E ev \in {[cmd |-> 0, arg |-> a, deps |-> EmptyMap]} :
       \E base \in {run_foreach_recursively(events, sts, AllOf(xs))} :
       \E cur \in {run_event_bare(ev.cmd, ev.arg, base.dat)} :
          /\ sts' = base.sts
          /\ loop' = [phase |-> "loop", ev |-> ev,
                      st |-> IF ~base.ok \/ ~cur.ok THEN "err"
                             ELSE IF base.dat = cur.dat THEN "none" ELSE "loop",
                      err |-> IF ~base.ok THEN base.err
                              ELSE IF ~cur.ok THEN "Engine" ELSE "",
                      seed_deps |-> xs, cur_deps |-> EmptyMap, rounds |-> <<>>]
          /\ last' = [last EXCEPT !.op = "begin", !.ev = ev, !.seeds = xs]
    /\ sears' = Append(sears, a)
    /\ nops' = nops + 1
    /\ UNCHANGED <<tracker, histate, walk, events, start, xs, oldxs, folded>>

\* one round of the while loop
Round ==
    /\ loop.phase = "loop"
    /\ loop.st = "loop"
    /\ loop.seed_deps # {}
    /\ Len(loop.rounds) < MaxRounds
    /\ \E s \in {shelve_round(events, loop.ev, LoopOf(loop, sts))} :
          /\ sts' = s.sts
          /\ loop' = [loop EXCEPT !.st = s.st, !.err = s.err, !.seed_deps = s.seed_deps,
                                  !.cur_deps = s.cur_deps,
                                  !.rounds = Append(@, round_record(events, loop.ev,
                                                                    LoopOf(loop, sts)))]
    /\ UNCHANGED <<tracker, histate, walk, events, start, xs, oldxs, folded, sears, nops, last>>

\* shelve_event from the end of its while loop: the deps and the registration
End ==
    /\ loop.phase = "loop"
    /\ loop.st # "loop" \/ loop.seed_deps = {} \/ Len(loop.rounds) = MaxRounds
    /\ \E r \in {shelve_end(events, loop.ev,
                            shelve_loop(events, loop.ev, LoopOf(loop, sts), 0))} :
          /\ events' = r.events
          /\ sts' = r.sts
          /\ xs' = IF r.kind = "some" THEN xs \cup {r.h} ELSE xs
          /\ last' = LastOf("shelve", loop.ev, last.seeds, r)
    /\ loop' = [loop EXCEPT !.phase = "done"]
    /\ UNCHANGED <<tracker, histate, walk, start, oldxs, folded, sears, nops>>

\* the commands of the event a session may start from
ImportArgs == {Sear(<<2>>, <<>>), Sear(<<1, 1>>, <<>>)}

\* Graph::ensure_event ahead of the first shelve_event: an event without deps
\* comes from another graph, and the caller takes it into its frontier
Import(a) ==
    /\ last.op = "new"
    /\ \E r \in {ensure_event(events, [cmd |-> 0, arg |-> a, deps |-> EmptyMap])} :
          /\ events' = r.events
          /\ xs' = xs \cup {r.h}
          /\ last' = LastOf("ensure", [cmd |-> 0, arg |-> a, deps |-> EmptyMap], {},
                            CallRes("ok", "", r.h, r.events, sts))
    /\ UNCHANGED <<tracker, histate, walk, loop, sts, start, oldxs, folded, sears, nops>>

NextRound ==
    \/ \E a \in ImportArgs : Import(a)
    \/ \E a \in Args : loop.phase = "idle" /\ ShelveXs(a)
    \/ \E a \in Args : Begin(a)
    \/ Round
    \/ End

SpecRound == Init /\ [][NextRound]_vars

\* ------------------------------------------------ properties of the rounds
\* the call under way has ended and stored an event
Stored == loop.phase = "done" /\ last.kind = "some"

\* the rounds of the call in which the independence test said d is not
\* independent, d undecided until then
DecidedIn(d) ==
    {i \in 1 .. Len(loop.rounds) :
        loop.rounds[i].acted /\ d \in loop.rounds[i].dep
                             /\ d \notin DOMAIN loop.rounds[i].cur_deps}

\* C23: probe-relative minimality: every hard dep of an event stored by
\* shelve_event was found not independent by the independence test in the
\* round that decided it, and no seed the test found independent in a round
\* of the call is stored as a hard dep
ProbeRelativeMinimality ==
    Stored =>
        \A d \in HardDeps(events[last.h]) :
            /\ DecidedIn(d) # {}
            /\ \A i \in 1 .. Len(loop.rounds) : d \notin loop.rounds[i].indep

\* a call stored an event with a hard dep decided in a round that came after
\* a round in which a seed was found independent
ProbeRelativeMinimalityWitness ==
    /\ Stored
    /\ \E d \in HardDeps(events[last.h]) :
       \E i \in DecidedIn(d) : \E j \in 1 .. (i - 1) : loop.rounds[j].indep # {}

\* the seeds probed in round i that are a no-op in the context of that round:
\* the replay of the frontier without c gives the payload of the frontier
NoopInContext(i) ==
    {c \in loop.rounds[i].probed : loop.rounds[i].base_st = loop.rounds[i].without[c]}

\* tests::revert_then in the commands of the sessions: the second event
\* takes back a part of what the first one created
RevertThen ==
    /\ start = <<1>>
    /\ sears = <<Sear(<<1>>, <<1, 1>>), Sear(<<1, 1>>, <<1>>), Sear(<<1>>, <<2>>)>>
    /\ Cardinality(DOMAIN events) = 3

\* C24: revert rule: a probed seed c that is a no-op in context (the payload
\* of the frontier is the payload of the frontier without c) is found not
\* independent whenever the test returns, and is a hard dep of the event the
\* call stores; in the session of tests::revert_then the third event has the
\* reverting second event as a hard dep
RevertRule ==
    /\ \A i \in 1 .. Len(loop.rounds) : \A c \in NoopInContext(i) :
          /\ c \in loop.rounds[i].dep \cup loop.rounds[i].failed
          /\ Stored => c \in HardDeps(events[last.h])
    /\ (Stored /\ RevertThen) =>
          \E h \in HardDeps(events[last.h]) : events[h].arg = sears[2]

\* a stored event has a hard dep that was a no-op in the context of its round
RevertRuleWitness ==
    /\ Stored
    /\ \E i \in 1 .. Len(loop.rounds) : \E c \in NoopInContext(i) :
          c \in loop.rounds[i].dep /\ c \in HardDeps(events[last.h])

\* the seeds probed in round i that have the cmd and the arg of the candidate
SelfRepeats(i) ==
    {c \in loop.rounds[i].probed :
        events[c].cmd = loop.ev.cmd /\ events[c].arg = loop.ev.arg}

\* tests::equal_but_non_idempotent in the commands of the sessions
EqualButNonIdempotent ==
    /\ start = <<1>>
    /\ sears = <<Sear(<<1>>, <<1, 1>>), Sear(<<1>>, <<1, 1>>), Sear(<<1>>, <<2>>)>>
    /\ Cardinality(DOMAIN events) = 3

\* C25: self-repeat rule: a probed seed with the cmd and the arg of the new
\* event is found not independent; when the harness shelves the same
\* state-changing event twice in a row the second has the first as a hard dep;
\* and a different event stored after them that depends on the second has
\* both in the closure of its deps (tests::equal_but_non_idempotent: the
\* third event has the second as a hard dep, the second the first)
SelfRepeatRule ==
    /\ \A i \in 1 .. Len(loop.rounds) :
          loop.rounds[i].acted => SelfRepeats(i) \subseteq loop.rounds[i].dep
    /\ (Stored /\ Len(sears) >= 2 /\ sears[Len(sears) - 1] = sears[Len(sears)]) =>
          \E h \in HardDeps(events[last.h]) : events[h].arg = loop.ev.arg
    /\ Stored =>
          \A h2 \in DOMAIN events[last.h].deps : \A h1 \in HardDeps(events[h2]) :
              (events[h1].arg = events[h2].arg /\ events[h2].arg # loop.ev.arg) =>
                  {h1, h2} \subseteq Closure({last.h}) \ {last.h}
    /\ (Stored /\ EqualButNonIdempotent) =>
          \E h2 \in HardDeps(events[last.h]) : \E h1 \in HardDeps(events[h2]) :
              events[h2].arg = sears[2] /\ events[h1].arg = sears[1]

\* the third event of tests::equal_but_non_idempotent is stored: it depends on
\* the second of the two equal events, which depends on the first
SelfRepeatRuleWitness ==
    /\ Stored /\ EqualButNonIdempotent
    /\ \E h2 \in HardDeps(events[last.h]) : \E h1 \in HardDeps(events[h2]) :
          /\ events[h1].arg = events[h2].arg
          /\ {h1, h2} \subseteq Closure({last.h}) \ {last.h}

\* the predicate of the independence test on the seed c probed in round i:
\* c applied after the candidate on the payload replayed without c gives cur,
\* and the candidate alone on that payload does not
CommutesTo(i, c) ==
    \E evfirst \in {run_event_bare(loop.ev.cmd, loop.ev.arg, loop.rounds[i].without[c])} :
    \E alt \in {run_event_bare(events[c].cmd, events[c].arg, evfirst.dat)} :
        /\ alt.dat = loop.rounds[i].cur_st
        /\ evfirst.dat # loop.rounds[i].cur_st

\* C26 as stated: a probed seed c that is neither a no-op in context (the
\* revert rule, payload(S) = payload(S')) nor a self-repeat is found
\* independent if and only if the predicate holds of it
IndependencePredicate ==
    \A i \in 1 .. Len(loop.rounds) :
        \A c \in loop.rounds[i].probed \ (NoopInContext(i) \cup SelfRepeats(i)) :
            c \notin loop.rounds[i].failed =>
                (c \in loop.rounds[i].indep <=> CommutesTo(i, c))

\* the seeds probed in round i that the candidate takes back: cur is the
\* payload replayed without c (the first branch of the test)
Reverted(i) ==
    {c \in loop.rounds[i].probed : loop.rounds[i].cur_st = loop.rounds[i].without[c]}

\* C26: a probed seed c that the candidate does not take back (cur differs
\* from the payload replayed without c) and that is not a self-repeat is
\* found independent if and only if the predicate holds of it, whenever the
\* engine returns; a seed the candidate takes back is found not independent
IndependencePredicateUnlessReverted ==
    \A i \in 1 .. Len(loop.rounds) :
        /\ Reverted(i) \subseteq loop.rounds[i].dep
        /\ \A c \in loop.rounds[i].probed \ (Reverted(i) \cup SelfRepeats(i)) :
              c \notin loop.rounds[i].failed =>
                  (c \in loop.rounds[i].indep <=> CommutesTo(i, c))

\* the call found a seed of which the predicate holds independent, and a seed
\* of which it does not hold, neither taken back nor a self-repeat, not
\* independent
IndependencePredicateUnlessRevertedWitness ==
    /\ \E i \in 1 .. Len(loop.rounds) :
       \E c \in loop.rounds[i].indep : CommutesTo(i, c)
    /\ \E i \in 1 .. Len(loop.rounds) :
       \E c \in loop.rounds[i].dep \ (Reverted(i) \cup SelfRepeats(i)) : ~CommutesTo(i, c)

\* the decision map after round i
CurDepsAfter(i) ==
    IF i < Len(loop.rounds) THEN loop.rounds[i + 1].cur_deps ELSE loop.cur_deps

\* the rounds that came to their decisions and to the end of their safety check
Decided ==
    {i \in 1 .. Len(loop.rounds) :
        /\ loop.rounds[i].acted /\ loop.rounds[i].failed = {}
        /\ i = Len(loop.rounds) => loop.st \in {"loop", "break"}}

\* C27 as stated: a seed found not independent is marked Use and all its deps
\* are marked Deny, and no entry marked Use is marked Deny by a later step
UseAndDenyAllDeps ==
    \A i \in Decided :
        /\ \A c \in loop.rounds[i].dep :
              /\ c \in DOMAIN CurDepsAfter(i) /\ CurDepsAfter(i)[c] = "Use"
              /\ \A d \in DOMAIN events[c].deps :
                    d \in DOMAIN CurDepsAfter(i) /\ CurDepsAfter(i)[d] = "Deny"
        /\ \A h \in DOMAIN loop.rounds[i].cur_deps :
              loop.rounds[i].cur_deps[h] = "Use" => CurDepsAfter(i)[h] = "Use"

\* C27: a seed found not independent is marked Use and its hard deps are
\* marked Deny, and no entry marked Use is marked Deny by a later step of the
\* loop
UseAndDenyHardDeps ==
    \A i \in Decided :
        /\ \A c \in loop.rounds[i].dep :
              /\ c \in DOMAIN CurDepsAfter(i) /\ CurDepsAfter(i)[c] = "Use"
              /\ \A d \in HardDeps(events[c]) :
                    d \in DOMAIN CurDepsAfter(i) /\ CurDepsAfter(i)[d] = "Deny"
        /\ \A h \in DOMAIN loop.rounds[i].cur_deps :
              loop.rounds[i].cur_deps[h] = "Use" => CurDepsAfter(i)[h] = "Use"

\* a round that began with an entry marked Use marked a further seed Use and
\* a hard dep of it Deny
UseAndDenyHardDepsWitness ==
    \E i \in Decided :
        /\ \E h \in DOMAIN loop.rounds[i].cur_deps : loop.rounds[i].cur_deps[h] = "Use"
        /\ \E c \in loop.rounds[i].dep : \E d \in HardDeps(events[c]) :
              CurDepsAfter(i)[c] = "Use" /\ CurDepsAfter(i)[d] = "Deny"

\* the hashes marked Deny at some point of the call
Denied ==
    {h \in DOMAIN loop.cur_deps : loop.cur_deps[h] = "Deny"}
    \cup UNION {{h \in DOMAIN loop.rounds[i].cur_deps : loop.rounds[i].cur_deps[h] = "Deny"} :
                   i \in 1 .. Len(loop.rounds)}

\* C28: in the event stored by shelve_event no hard dep is a hard dep of
\* another hard dep of the event, and no hash marked Deny in the call is among
\* the stored deps, hard or soft
NoImpliedHardDep ==
    Stored =>
        /\ \A d1, d2 \in HardDeps(events[last.h]) : d1 \notin HardDeps(events[d2])
        /\ Denied \cap DOMAIN events[last.h].deps = {}

\* an event is stored with two hard deps, a hard dep of one of them having
\* been marked Deny
NoImpliedHardDepWitness ==
    /\ Stored
    /\ Cardinality(HardDeps(events[last.h])) >= 2
    /\ \E d \in HardDeps(events[last.h]) : HardDeps(events[d]) \cap Denied # {}

\* the new seeds of round i: the deps of the seeds found independent, and the
\* deferred seeds unless they are all the seeds of the round
NewSeeds(i) ==
    UNION {DOMAIN events[c].deps : c \in loop.rounds[i].indep}
    \cup (IF loop.rounds[i].extra # loop.rounds[i].seeds THEN loop.rounds[i].extra ELSE {})

\* the reduced frontier of round i: the new seeds not denied, and the Use deps
Reduced(i) ==
    {n \in NewSeeds(i) : ~IsDeny(CurDepsAfter(i), n)} \cup UseKeys(CurDepsAfter(i))

\* the seeds of round i the replay of the reduced frontier misses
OpenSeeds(i) ==
    loop.rounds[i].seeds \ run_foreach_recursively(events, sts, AllOf(Reduced(i))).tt

\* the candidate and then the open seeds, applied to the replay of the
\* reduced frontier, give another payload than cur
LostDependency(i) ==
    \E r \in {run_foreach_recursively(events, sts, AllOf(Reduced(i)))} :
    \E tmp0 \in {run_event_bare(loop.ev.cmd, loop.ev.arg, r.dat)} :
    \E tmp \in {apply_bare(events, SortedSeq(loop.rounds[i].seeds \ r.tt), tmp0.dat)} :
        tmp.dat # loop.rounds[i].cur_st

\* C29: the safety check of a round: when the candidate and then the open
\* seeds, applied to the replay of the reduced frontier, do not give cur, the
\* round is the last one, every open seed is marked UseSoft and is a soft dep
\* of the event the call stores; when they give cur, the loop goes on with the
\* new seeds and the round marks nothing UseSoft
SafetyCheck ==
    \A i \in Decided :
        IF LostDependency(i)
        THEN /\ i = Len(loop.rounds) /\ loop.st = "break"
             /\ \A c \in OpenSeeds(i) :
                   /\ c \in DOMAIN loop.cur_deps /\ loop.cur_deps[c] = "UseSoft"
                   /\ Stored => c \in DOMAIN events[last.h].deps /\ ~events[last.h].deps[c]
        ELSE /\ i = Len(loop.rounds) => loop.st = "loop" /\ loop.seed_deps = NewSeeds(i)
             /\ i < Len(loop.rounds) =>
                   loop.rounds[i + 1].seeds = NewSeeds(i) \ DOMAIN CurDepsAfter(i)
             /\ \A h \in DOMAIN CurDepsAfter(i) : CurDepsAfter(i)[h] # "UseSoft"

\* a call that went on after the safety check of its first round lost a
\* dependency in a later one and stored its open seeds as soft deps
SafetyCheckWitness ==
    /\ Stored
    /\ Len(loop.rounds) >= 2 /\ Decided = 1 .. Len(loop.rounds)
    /\ LostDependency(Len(loop.rounds)) /\ ~LostDependency(1)
    /\ \E c \in OpenSeeds(Len(loop.rounds)) : ~events[last.h].deps[c]

\* the seeds of round i that another element of the frontier of the round
\* (the seeds and the Use deps) has in its closure
Pulled(i) ==
    {c \in loop.rounds[i].seeds :
        c \in Closure((loop.rounds[i].seeds \cup UseKeys(loop.rounds[i].cur_deps)) \ {c})}

\* the last round came to the end of its safety check and the loop goes on
\* with the new seeds
WentOn == Len(loop.rounds) \in Decided /\ loop.st = "loop"

\* C30 as stated: a seed pulled in by another element of the frontier is not
\* probed in the round, and is among the seeds the round leaves to the next
Deferral ==
    WentOn =>
        /\ Pulled(Len(loop.rounds)) \cap loop.rounds[Len(loop.rounds)].probed = {}
        /\ Pulled(Len(loop.rounds)) \subseteq loop.seed_deps

\* C30: a seed pulled in by another element of the frontier is not probed in
\* the round; it is among the seeds the round leaves to the next, unless
\* every seed of the round is pulled in: the round then leaves no seed and
\* the loop ends
DeferralUnlessAll ==
    WentOn =>
        /\ Pulled(Len(loop.rounds)) = loop.rounds[Len(loop.rounds)].extra
        /\ loop.rounds[Len(loop.rounds)].probed
              = loop.rounds[Len(loop.rounds)].seeds \ Pulled(Len(loop.rounds))
        /\ IF Pulled(Len(loop.rounds)) # loop.rounds[Len(loop.rounds)].seeds
           THEN Pulled(Len(loop.rounds)) \subseteq loop.seed_deps
           ELSE loop.seed_deps = {}

\* a round deferred a seed and probed another one, and a later round of the
\* call probed the deferred seed
DeferralUnlessAllWitness ==
    /\ WentOn /\ Len(loop.rounds) >= 2
    /\ \E c \in Pulled(1) : c \in loop.rounds[2].probed
    /\ Pulled(1) # loop.rounds[1].seeds

\* ------------------------------------------------------------ walk sessions
\* a graph taken in by ensure_event, its deps unchecked (dangling deps and
\* dependency cycles are among them), then replays through the dependency
\* stack

\* the record of a replay: cached holds the keys the cache had before it
WalkOf(tt0, evids, r) ==
    [n |-> walk.n + 1, op |-> "walk", tt0 |-> tt0, evids |-> evids, kind |-> r.kind,
     err |-> r.err, tt |-> r.tt, ran |-> r.ran, cached |-> DOMAIN sts, some |-> FALSE,
     elem |-> EmptyMap]

\* WorkCache::check_if_mergable on a frontier of stored events
Mergable(F) ==
    /\ nops <= MaxOps
    /\ \E r \in check_if_mergable(events, sts, F) :
          /\ sts' = r.sts
          /\ walk' = [n |-> walk.n + 1, op |-> "mergable", tt0 |-> {},
                      evids |-> [h \in F |-> "IncludeAll"], kind |-> r.kind, err |-> r.err,
                      tt |-> {}, ran |-> <<>>, cached |-> DOMAIN sts, some |-> r.some,
                      elem |-> r.elem]
    /\ nops' = nops + 1
    /\ UNCHANGED <<tracker, histate, events, start, xs, oldxs, folded, loop, sears, last>>

\* WorkCache::run_recursively on an applied set of the cache
Walk(tt, main_evid, incl) ==
    /\ nops <= MaxOps
    /\ \E r \in {run_recursively(events, sts, tt, main_evid, incl)} :
          /\ sts' = r.sts
          /\ walk' = WalkOf(tt, (main_evid :> incl), r)
    /\ nops' = nops + 1
    /\ UNCHANGED <<tracker, histate, events, start, xs, oldxs, folded, loop, sears, last>>

\* WorkCache::run_foreach_recursively of the engine module on a map of targets
WalkEach(evids) ==
    /\ nops <= MaxOps
    /\ \E r \in {run_foreach_stack(events, sts, evids)} :
          /\ sts' = r.sts
          /\ walk' = WalkOf({}, evids, r)
    /\ nops' = nops + 1
    /\ UNCHANGED <<tracker, histate, events, start, xs, oldxs, folded, loop, sears, last>>

IncludeSpec == {"IncludeAll", "IncludeOnlyDeps"}

\* the deps of an event taken in: those of the fold sessions, or a second hash
\* that is not in the graph
WalkDeps == FoldDeps \cup {(Min(Hashes \ (DOMAIN events \cup {Ghost})) :> TRUE)}

NextWalk ==
    \/ \E a \in FoldArgs, d \in WalkDeps : walk.n = 0 /\ Ensure(a, d)
    \/ \E tt \in DOMAIN sts, h \in DOMAIN events \cup {Ghost}, incl \in IncludeSpec :
          Walk(tt, h, incl)
    \/ \E evids \in UNION {[D -> IncludeSpec] : D \in SUBSET (DOMAIN events)} :
          WalkEach(evids)
    \/ \E F \in SUBSET (DOMAIN events) : Mergable(F)

SpecWalk == Init /\ [][NextWalk]_vars

\* ---------------------------------------------------------------- C31
\* the transitive deps of one event
TransDeps(t) == IF t \in DOMAIN events THEN Closure(DOMAIN events[t].deps) ELSE {}

\* the last stack-driven replay returned an applied set
WalkOk == walk.op = "walk" /\ walk.kind = "ok"

\* the cache as the last stack-driven replay found it
WalkCache == [S \in walk.cached |-> sts[S]]

\* a replay of one target that was not applied before returns all transitive
\* deps of the target, the target itself only when marked IncludeAll
OneTarget ==
    \A t \in DOMAIN walk.evids :
        (DOMAIN walk.evids = {t} /\ t \notin walk.tt0) =>
            /\ TransDeps(t) \subseteq walk.tt
            /\ walk.evids[t] = "IncludeOnlyDeps" => t \notin walk.tt
            /\ walk.evids[t] = "IncludeAll" => t \in walk.tt

\* the applied set of a replay of several targets is the same for every
\* iteration order of the targets that succeeds
AnyOrder ==
    walk.tt0 = {} =>
        \A p \in Perms(DOMAIN walk.evids) :
            \A r \in {run_foreach_fold(events, WalkCache, walk.evids, p, {}, <<>>)} :
                r.kind = "ok" => r.tt = walk.tt

\* C31 as stated: a target marked IncludeOnlyDeps is not part of the result,
\* only its transitive deps are: a replay of one target not applied before
\* returns all its transitive deps but not the target (IncludeAll: also the
\* target), and in a replay of several targets such a target is in the
\* returned set only when it is a transitive dep of another target marked
\* IncludeAll, whatever the iteration order of the targets
OnlyDepsUnlessPulledByIncludeAll ==
    WalkOk =>
        /\ OneTarget
        /\ AnyOrder
        /\ walk.tt0 = {} =>
              \A t \in DOMAIN walk.evids :
                  (walk.evids[t] = "IncludeOnlyDeps" /\ t \in walk.tt) =>
                      \E u \in DOMAIN walk.evids \ {t} :
                          walk.evids[u] = "IncludeAll" /\ t \in TransDeps(u)

\* C31: a target marked IncludeOnlyDeps is not part of the result, only its
\* transitive deps are: a replay of one target not applied before returns all
\* its transitive deps but not the target (IncludeAll: also the target), and
\* in a replay of several targets such a target is in the returned set only
\* when it is a transitive dep of another target, of either marking, whatever
\* the iteration order of the targets
OnlyDepsUnlessPulled ==
    WalkOk =>
        /\ OneTarget
        /\ AnyOrder
        /\ walk.tt0 = {} =>
              \A t \in DOMAIN walk.evids :
                  (walk.evids[t] = "IncludeOnlyDeps" /\ t \in walk.tt) =>
                      \E u \in DOMAIN walk.evids \ {t} : t \in TransDeps(u)

\* two targets marked IncludeOnlyDeps were replayed, one with deps that is left
\* out and one that is in the returned set as a dep of the other
OnlyDepsUnlessPulledWitness ==
    /\ WalkOk
    /\ walk.tt0 = {}
    /\ \E t, u \in DOMAIN walk.evids :
          /\ walk.evids[t] = "IncludeOnlyDeps" /\ walk.evids[u] = "IncludeOnlyDeps"
          /\ t \in TransDeps(u) /\ t \in walk.tt
          /\ u \notin walk.tt
          /\ \A v \in DOMAIN walk.evids : walk.evids[v] = "IncludeOnlyDeps"

\* ---------------------------------------------------------------- C32
\* an event that is its own ancestor can be reached from t
CycleFrom(t) == \E h \in (Closure({t}) \cap DOMAIN events) : h \in TransDeps(h)

\* the events of a sequence, each once
NoRepeat(s) == \A i, j \in 1..Len(s) : s[i] = s[j] => i = j

\* the last replay was a run_recursively of one target
WalkedOne(t) == walk.op = "walk" /\ DOMAIN walk.evids = {t}

\* a replay on an acyclic graph applied each missing event exactly once
AppliedOnce ==
    \A t \in DOMAIN walk.evids :
        (WalkedOne(t) /\ ~CycleFrom(t) /\ walk.kind = "ok") =>
            /\ NoRepeat(walk.ran)
            /\ {walk.ran[i] : i \in 1..Len(walk.ran)} = walk.tt \ walk.tt0
            /\ walk.tt \ walk.tt0 =
                  (TransDeps(t) \cup {h \in {t} : walk.evids[t] = "IncludeAll"}) \ walk.tt0

\* C32: run_recursively terminates on every finite graph: when a cycle of
\* the dependency relation can be reached from the target it returns a
\* dependency-circuit error instead of looping, and on an acyclic graph it
\* returns after applying each missing event exactly once
WalkTerminates ==
    \A t \in DOMAIN walk.evids :
        WalkedOne(t) =>
            /\ walk.kind # "diverge"
            /\ (CycleFrom(t) /\ walk.tt0 = {} /\ Closure({t}) \subseteq DOMAIN events)
                  => (walk.kind = "err" /\ walk.err = "DependencyCircuit")
            /\ AppliedOnce

\* ---------------------------------------------------------------- C33
\* the probes of the last check_if_mergable, on clones of the cache its
\* replays of the closures left
MergableProbes(F) ==
    LET b == mergable_bases(events, sts, SortedSeq(F), EmptyMap)
        pairs == mergable_pairs(b.bases, F)
    IN [k \in DOMAIN pairs |-> mergable_probe(events, sts, pairs[k])]

\* C33: check_if_mergable returns a merged cache only if every pairwise probe
\* (the closure of frontier element i, then element j, i # j, on a clone of
\* the cache) gave an equal result, and the answer does not depend on how the
\* parallel fold cuts the probes into parts: a mismatch inside any part makes
\* the result None
MergableOnlyIfAllEqual ==
    (walk.op = "mergable" /\ walk.kind = "ok") =>
        /\ walk.some =>
              \A p \in {MergableProbes(DOMAIN walk.evids)} :
                  \A k, l \in DOMAIN p : p[k].ok /\ p[l].ok /\ p[k].elem = p[l].elem
        /\ \A r \in check_if_mergable(events, sts, DOMAIN walk.evids) :
              r.kind = "ok" /\ r.some = walk.some

\* ------------------------------------------------------ the apply tracker
\* the ids the tracker calls are made with
MaxIds == 3
Ids == 1 .. MaxIds

ApplyRes(res, x) == [res |-> res, x |-> x]

\* can_run that looks at the deps before the rerun
can_run_depsfirst(trackertop, evid, deps) ==
    IF deps \ trackertop # {} THEN ApplyRes("DependencyUnsatisfied", Min(deps \ trackertop))
    ELSE IF evid \in trackertop THEN ApplyRes("RerunForbidden", evid)
    ELSE ApplyRes("Ok", evid)

\* utils::can_run(trackertop, evid, deps), ApplyTracker::can_run(nid, deps)
can_run(trackertop, evid, deps) ==
    IF evid \in trackertop THEN ApplyRes("RerunForbidden", evid)
    ELSE IF deps \ trackertop # {} THEN ApplyRes("DependencyUnsatisfied", Min(deps \ trackertop))
    ELSE ApplyRes("Ok", evid)

\* register_as_ran that leaves the tracker as it was
register_as_ran_skip(trackertop, nid) == trackertop

\* ApplyTracker::register_as_ran(nid)
register_as_ran(trackertop, nid) == trackertop \cup {nid}

\* a first call, of can_run, on a tracker holding top
CanRun(top, nid, deps) ==
    /\ nops = 0
    /\ \E r \in {can_run(top, nid, deps)} :
          tracker' = [NoTracker EXCEPT !.op = "can_run", !.top0 = top, !.top = top,
                                       !.nid = nid, !.deps = deps, !.res = r.res, !.x = r.x]
    /\ nops' = nops + 1
    /\ UNCHANGED <<events, sts, start, xs, oldxs, folded, loop, walk, histate, sears, last>>

\* ---------------------------------------------------------------- C34
\* C34: can_run(top, id, deps) returns RerunForbidden(id) when id is in top,
\* also when deps are missing too, else DependencyUnsatisfied(x) for the
\* smallest dep x that is not in top, else Ok; top is left as it was
CanRunOrder ==
    tracker.op = "can_run" =>
        /\ tracker.top = tracker.top0
        /\ tracker.nid \in tracker.top0 =>
              (tracker.res = "RerunForbidden" /\ tracker.x = tracker.nid)
        /\ (tracker.nid \notin tracker.top0 /\ ~(tracker.deps \subseteq tracker.top0)) =>
              /\ tracker.res = "DependencyUnsatisfied"
              /\ tracker.x \in tracker.deps \ tracker.top0
              /\ \A d \in tracker.deps \ tracker.top0 : tracker.x <= d
        /\ (tracker.nid \notin tracker.top0 /\ tracker.deps \subseteq tracker.top0) =>
              tracker.res = "Ok"

\* can_run was called with an id that is in top and a dep that is not
CanRunOrderWitness ==
    /\ tracker.op = "can_run"
    /\ tracker.nid \in tracker.top0
    /\ tracker.deps \ tracker.top0 # {}
    /\ tracker.res = "RerunForbidden"

\* the loop of apply_tags / cleanup_top over the tags that passed the filter,
\* in the order the HashMap iterates; debug tells whether the build has
\* debug_assertions
RECURSIVE apply_tags_loop(_, _, _, _)
apply_tags_loop(top, tags, order, debug) ==
    IF order = <<>> THEN [res |-> "Ok", top |-> top]
    ELSE LET k == Head(order)
             dif == top \ tags[k]
         IN IF debug /\ dif = {} THEN [res |-> "panic", top |-> top]
            ELSE apply_tags_loop(dif \cup {k}, tags, Tail(order), debug)

\* the tags the filter lets through: key not in top, value inside top
tags_filter(top, tags) == {k \in DOMAIN tags : k \notin top /\ tags[k] \subseteq top}

\* ApplyTracker::apply_tags(tags), HiState::cleanup_top(tags): the outcomes
\* over the iteration orders of the HashMap and the two builds
apply_tags(top, tags) ==
    {apply_tags_loop(top, tags, order, debug) :
        order \in Perms(tags_filter(top, tags)), debug \in BOOLEAN}

\* the tag maps of at most two tags
TagMaps == UNION {[D -> SUBSET Ids] : D \in {E \in SUBSET Ids : Cardinality(E) <= 2}}

\* a first call, of apply_tags, on a tracker holding top
ApplyTags(top, tags) ==
    /\ nops = 0
    /\ \E r \in apply_tags(top, tags) :
          tracker' = [NoTracker EXCEPT !.op = "apply_tags", !.top0 = top, !.top = r.top,
                                       !.tags = tags, !.res = r.res]
    /\ nops' = nops + 1
    /\ UNCHANGED <<events, sts, start, xs, oldxs, folded, loop, walk, histate, sears, last>>

NextTags ==
    \/ nops = 0 /\ \E top \in SUBSET Ids, nid \in Ids, deps \in SUBSET Ids : CanRun(top, nid, deps)
    \/ nops = 0 /\ \E top \in SUBSET Ids, tags \in TagMaps : ApplyTags(top, tags)

SpecTags == Init /\ [][NextTags]_vars

\* ---------------------------------------------------------------- C35
\* C35: for any tag map, apply_tags / cleanup_top completes without failing
\* and leaves top equal to (top minus the union of the v) plus the keys k,
\* over exactly the tags (k, v) with k not in the original top and v inside
\* it; the other tags change nothing and the iteration order of the tag map
\* does not matter
TagCleanup ==
    tracker.op = "apply_tags" =>
        LET used == tags_filter(tracker.top0, tracker.tags)
        IN /\ tracker.res = "Ok"
           /\ tracker.top = (tracker.top0 \ UNION {tracker.tags[k] : k \in used}) \cup used

\* ------------------------------------------------------ tracked replay
\* EsvcIndra::run_events(ids, data, Some(tracker)): the loop over ids on the
\* event database idb
RECURSIVE run_events(_, _, _, _, _)
run_events(idb, top, ids, data, ran) ==
    IF ids = <<>> THEN [res |-> "Ok", x |-> 0, top |-> top, data |-> data, ran |-> ran]
    ELSE LET id == Head(ids)
         IN IF id \notin DOMAIN idb
            THEN [res |-> "Database", x |-> id, top |-> top, data |-> data, ran |-> ran]
            ELSE LET c == can_run(top, id, DOMAIN idb[id].deps)
                     r == run_event_bare(idb[id].cmd, idb[id].arg, data)
                 IN IF c.res # "Ok"
                    THEN [res |-> c.res, x |-> c.x, top |-> top, data |-> data, ran |-> ran]
                    ELSE IF ~r.ok
                    THEN [res |-> "Execute", x |-> id, top |-> top, data |-> data, ran |-> ran]
                    ELSE run_events(idb, register_as_ran(top, id), Tail(ids), r.dat,
                                    ran \o <<id>>)

\* the lists of at most n ids a replay is called with
IdLists(n) == UNION {[1 .. k -> DOMAIN events \cup {Ghost}] : k \in 1 .. n}

\* a call of run_events with the tracker of the session; every id of the list
\* counts as a call
RunEvents(ids) ==
    /\ nops + Len(ids) <= MaxOps + 2
    /\ \E r \in {run_events(events, tracker.top, ids, start, <<>>)} :
          tracker' = [NoTracker EXCEPT !.op = "run_events", !.top0 = tracker.top,
                                       !.top = r.top, !.ids = ids, !.ran = r.ran,
                                       !.data = r.data, !.res = r.res, !.x = r.x]
    /\ nops' = nops + Len(ids)
    /\ UNCHANGED <<events, sts, start, xs, oldxs, folded, loop, walk, histate, sears, last>>

\* HiState::run(nid, deps, ev) on the state (top, inner)
hi_run(top, inner, nid, deps, ev) ==
    LET r == run_event_bare(ev.cmd, ev.arg, inner)
    IN IF nid \in top THEN [res |-> "RerunForbidden", x |-> nid, top |-> top, inner |-> inner]
       ELSE IF deps \ top # {}
       THEN [res |-> "DependencyUnsatisfied", x |-> Min(deps \ top), top |-> top,
             inner |-> inner]
       ELSE IF ~r.ok THEN [res |-> "Inner", x |-> nid, top |-> top, inner |-> inner]
       ELSE [res |-> "Ok", x |-> nid, top |-> top, inner |-> r.dat]

\* the command "run" of esvc-indra on an event of the database
HiRun(eid) ==
    /\ nops <= MaxOps
    /\ eid \in DOMAIN events
    /\ \E r \in {hi_run(histate.top, histate.inner, eid, DOMAIN events[eid].deps, events[eid])} :
          histate' = [top |-> r.top, inner |-> r.inner,
                      ran |-> IF r.res = "Ok" THEN histate.ran \o <<eid>> ELSE histate.ran,
                      nid |-> eid, res |-> r.res, x |-> r.x]
    /\ nops' = nops + 1
    /\ UNCHANGED <<events, sts, start, xs, oldxs, folded, loop, walk, tracker, sears, last>>

\* a session of esvc-indra: events are taken into the database, then either
\* the python module replays lists of them through one tracker or the command
\* line runs them one by one on one HiState
NextTrack ==
    \/ \E a \in FoldArgs, d \in WalkDeps :
          nops < MaxOps - 1 /\ tracker.op = "none" /\ histate.res = "none" /\ Ensure(a, d)
    \/ histate.res = "none" /\ \E ids \in IdLists(MaxOps + 2 - nops) : RunEvents(ids)
    \/ \E eid \in DOMAIN events : tracker.op = "none" /\ HiRun(eid)

SpecTrack == Init /\ [][NextTrack]_vars

\* ---------------------------------------------------------------- C39
\* the events of a sequence
Range(s) == {s[i] : i \in 1 .. Len(s)}

\* the deps of every stored event of S are in S
DepClosed(S) == \A h \in S \cap DOMAIN events : DOMAIN events[h].deps \subseteq S

\* C39: in a replay of a list of ids through an ApplyTracker no event is
\* executed while one of its deps is unregistered, no event is executed twice,
\* the set of the tracker is dependency-closed after every step, and on a
\* can_run error the replay stops with the tracker holding exactly the events
\* executed so far
TrackedReplay ==
    tracker.op = "run_events" =>
        LET ran == tracker.ran
            After(i) == tracker.top0 \cup {ran[j] : j \in 1 .. i}
        IN /\ \A i \in 1 .. Len(ran) :
                 /\ ran[i] \in DOMAIN events
                 /\ DOMAIN events[ran[i]].deps \subseteq After(i - 1)
                 /\ ran[i] \notin After(i - 1)
           /\ \A i \in 0 .. Len(ran) : DepClosed(After(i))
           /\ ran = SubSeq(tracker.ids, 1, Len(ran))
           /\ tracker.top = After(Len(ran))
           /\ tracker.res = "Ok" <=> Len(ran) = Len(tracker.ids)
           /\ tracker.res \in {"RerunForbidden", "DependencyUnsatisfied"} =>
                 can_run(tracker.top, tracker.ids[Len(ran) + 1],
                         DOMAIN events[tracker.ids[Len(ran) + 1]].deps).res = tracker.res

\* a replay ran an event and one that depends on it and stopped at the rerun
\* of one of them
TrackedReplayWitness ==
    /\ tracker.op = "run_events"
    /\ Len(tracker.ran) = 2
    /\ tracker.ran[1] \in DOMAIN events[tracker.ran[2]].deps
    /\ tracker.res = "RerunForbidden"

\* ---------------------------------------------------------------- C40
\* the events HiState::run accepted before its last call
HiPrior == Range(IF histate.res = "Ok" THEN Front(histate.ran) ELSE histate.ran)

\* C40: after HiState::run(nid, deps, ev) succeeded, a second run of the same
\* nid is rejected with RerunForbidden(nid), and an event whose deps have all
\* been run with success before is not rejected with DependencyUnsatisfied
HiStateTracks ==
    histate.res # "none" =>
        /\ histate.nid \in HiPrior => (histate.res = "RerunForbidden" /\ histate.x = histate.nid)
        /\ (histate.nid \notin HiPrior /\ DOMAIN events[histate.nid].deps \subseteq HiPrior)
              => histate.res # "DependencyUnsatisfied"

\* ---------------------------------------------------------------- C36
\* the length of the longest chain of deps below an event
RECURSIVE Height(_)
Height(h) ==
    IF h \notin DOMAIN events \/ DOMAIN events[h].deps = {} THEN 0
    ELSE LET below == {Height(d) : d \in DOMAIN events[h].deps}
         IN 1 + CHOOSE m \in below : \A n \in below : n <= m

\* the seed set A comes before B: every seed A gained lies below a seed B lost
SeedsBelow(A, B) ==
    /\ A # B
    /\ \A y \in A \ B : \E x \in B \ A : Height(x) > Height(y)

\* C36: shelve_event terminates: each round of its loop either ends the loop
\* (the seed set is empty, or the loop breaks or fails) or leaves a seed set
\* that comes before the one it started from in a well-founded order, also
\* when every seed of the round is deferred
ShelveTerminates ==
    [][(loop.phase = "loop" /\ loop'.phase = "loop" /\ loop'.rounds # loop.rounds) =>
          \/ loop'.st # "loop"
          \/ loop'.seed_deps = {}
          \/ /\ SeedsBelow(loop'.seed_deps, loop.seed_deps)
             /\ Len(loop'.rounds) < MaxRounds]_vars

\* a call went through a round that handed seeds on and then through a round
\* in which every seed was deferred, and its loop ended there
ShelveTerminatesWitness ==
    /\ loop.phase = "loop" /\ Len(loop.rounds) >= 2
    /\ WentOn
    /\ Pulled(Len(loop.rounds)) = loop.rounds[Len(loop.rounds)].seeds
    /\ loop.rounds[Len(loop.rounds)].seeds # {}
    /\ loop.seed_deps = {}

\* ---------------------------------------------------------------- C37
\* the rounds that came to the end of their safety check, whatever it did
Checked == {i \in 1 .. Len(loop.rounds) : loop.rounds[i].acted /\ loop.rounds[i].failed = {}
                                             /\ (i = Len(loop.rounds) => loop.st # "err")}

ProbeEvents == {[cmd |-> 0, arg |-> a, deps |-> EmptyMap] : a \in FoldArgs}

\* C38: the cache is transparent: run_foreach_recursively (payload, applied
\* set) and shelve_event (hash or None, event stored) give the same result on
\* the cache as it is and on a fresh cache that holds the initial payload only
CacheTransparent ==
    \A F \in Frontiers :
        /\ \A a \in {run_foreach_recursively(events, sts, AllOf(F))} :
           \A b \in {run_foreach_recursively(events, NewCache(start), AllOf(F))} :
              /\ a.ok = b.ok /\ a.err = b.err
              /\ a.ok => (a.dat = b.dat /\ a.tt = b.tt)
        /\ \A ev \in ProbeEvents :
           \A a \in {shelve_event(events, sts, F, ev)} :
           \A b \in {shelve_event(events, NewCache(start), F, ev)} :
              a.kind = b.kind /\ a.err = b.err /\ a.h = b.h /\ a.events = b.events

====
